---------------------------- MODULE Spec2Model ----------------------------
(***************************************************************************)
(* A model of the ray tracer of src/src/raytracer: the scene loader of     *)
(* RayTracer::render_from_file, the pixel loop of RayTracer::render, the   *)
(* nearest-hit scans of Scene and the recursion of                         *)
(* Scene::_recursive_raytrace.  A second specification, SpecCall, calls    *)
(* utils::lambert, SceneObject::intersect and Ray::generate_primary_ray    *)
(* on their own, with arguments drawn from bounded sets.                   *)
(*                                                                         *)
(* Numbers.  The program computes in f32.  The model computes in fixed     *)
(* point: the integer n stands for the real n / SCALE, products and        *)
(* quotients are rounded to the nearest unit, square roots are rounded     *)
(* down.  The IEEE value NaN (0/0, sqrt of a negative number) is kept as   *)
(* the value NaN and propagates through arithmetic as it does in f32;      *)
(* every comparison with NaN is false.  Thresholds of the program that are *)
(* finer than one unit (1e-4) are compared exactly, by cross               *)
(* multiplication.                                                         *)
(***************************************************************************)
EXTENDS Integers, Sequences, FiniteSets, TLC

\* ------------------------------------------------------------------------
\* f32, in fixed point
\* ------------------------------------------------------------------------

\* One real unit: the f32 value 1.0.
SCALE == 1000

\* The f32 value NaN.
NaN == -2000000000

\* The f32 values +inf and -inf (x / 0.0 for x # 0).
PInf == 2000000000

NInf == -2000000001

Abs(n) == IF n < 0 THEN -n ELSE n

Sign(n) == IF n < 0 THEN -1 ELSE 1

\* n / d rounded to the nearest integer, halves away from zero (d > 0).
RoundDiv(n, d) == Sign(n) * ((2 * Abs(n) + d) \div (2 * d))

IsNaN(a) == a = NaN

FNeg(a) == IF IsNaN(a) THEN NaN ELSE -a

FAdd(a, b) == IF IsNaN(a) \/ IsNaN(b) THEN NaN ELSE a + b

FSub(a, b) == IF IsNaN(a) \/ IsNaN(b) THEN NaN ELSE a - b

FMul(a, b) == IF IsNaN(a) \/ IsNaN(b) THEN NaN ELSE RoundDiv(a * b, SCALE)

\* a / b in f32: 0/0 is NaN, x/0 is an infinity.
FDiv(a, b) ==
    IF IsNaN(a) \/ IsNaN(b) THEN NaN
    ELSE IF b = 0 THEN (IF a = 0 THEN NaN ELSE IF a > 0 THEN PInf ELSE NInf)
    ELSE Sign(b) * RoundDiv(a * SCALE, Abs(b))

\* f32 comparisons: false as soon as one side is NaN.
FLt(a, b) == ~IsNaN(a) /\ ~IsNaN(b) /\ a < b

FLe(a, b) == ~IsNaN(a) /\ ~IsNaN(b) /\ a <= b

FGt(a, b) == ~IsNaN(a) /\ ~IsNaN(b) /\ a > b

\* f32::abs
FAbs(a) == IF IsNaN(a) THEN NaN ELSE Abs(a)

\* f32::max and f32::min return the other operand when one is NaN.
FMax(a, b) == IF IsNaN(a) THEN b ELSE IF IsNaN(b) THEN a ELSE IF a > b THEN a ELSE b

FMin(a, b) == IF IsNaN(a) THEN b ELSE IF IsNaN(b) THEN a ELSE IF a < b THEN a ELSE b

\* f32::clamp(lo, hi) keeps NaN.
FClamp(a, lo, hi) == IF IsNaN(a) THEN NaN ELSE IF a < lo THEN lo ELSE IF a > hi THEN hi ELSE a

RECURSIVE ISqrtIter(_, _, _)
\* The largest x in lo..hi with x * x <= n, by bisection.
ISqrtIter(n, lo, hi) ==
    IF lo >= hi THEN lo
    ELSE LET mid == (lo + hi + 1) \div 2
         IN IF mid * mid <= n THEN ISqrtIter(n, mid, hi) ELSE ISqrtIter(n, lo, mid - 1)

ISqrt(n) == ISqrtIter(n, 0, 46340)

\* f32::sqrt: NaN below zero.
FSqrt(a) == IF IsNaN(a) \/ a < 0 THEN NaN ELSE ISqrt(a * SCALE)

RECURSIVE ICbrtIter(_, _, _)
\* The largest x in lo..hi with x * x * x <= n, by bisection.
ICbrtIter(n, lo, hi) ==
    IF lo >= hi THEN lo
    ELSE LET mid == (lo + hi + 1) \div 2
         IN IF mid * mid * mid <= n THEN ICbrtIter(n, mid, hi) ELSE ICbrtIter(n, lo, mid - 1)

\* The cube root of a >= 0 in fixed point.
FCbrt(a) == IF a <= 2000 THEN ICbrtIter(a * SCALE * SCALE, 0, 1290)
            ELSE 10 * ICbrtIter(a * SCALE, 0, 1290)

\* sin(u * pi) for a fixed-point u, by Bhaskara's rational approximation
\* 16u(1-u) / (5 - 4u(1-u)) on [0, 1], extended by sin(x + pi) = -sin(x).
\* It is exact at the multiples of pi/2 and of pi/6.
SinPi(u) ==
    IF IsNaN(u) THEN NaN
    ELSE LET m == u % (2 * SCALE)
             w == IF m >= SCALE THEN m - SCALE ELSE m
             p == FMul(w, SCALE - w)
             s == FDiv(16 * p, 5 * SCALE - 4 * p)
         IN IF m >= SCALE THEN -s ELSE s

CosPi(u) == IF IsNaN(u) THEN NaN ELSE SinPi(u + SCALE \div 2)

\* e^(-x) for x >= 0, by the rational approximation 1 / (1 + x + x^2/2);
\* e^(-x) for x < 0 by its reciprocal form 1 + |x| + x^2/2.
ExpNeg(x) ==
    IF IsNaN(x) THEN NaN
    ELSE LET q == SCALE + Abs(x) + FMul(Abs(x), Abs(x)) \div 2
         IN IF x >= 0 THEN FDiv(SCALE, q) ELSE q


\* ------------------------------------------------------------------------
\* Option<T>: None is the empty sequence, Some(x) the sequence <<x>>
\* ------------------------------------------------------------------------

None == << >>

Some(x) == <<x>>

IsSome(o) == Len(o) = 1

IsNone(o) == Len(o) = 0

Unwrap(o) == o[1]

\* ------------------------------------------------------------------------
\* MatVec<N>: a sequence of N numbers
\* ------------------------------------------------------------------------

Vec3(x, y, z) == <<x, y, z>>

ZeroVec3 == <<0, 0, 0>>

RECURSIVE DotFrom(_, _, _)
DotFrom(a, b, i) ==
    IF i > Len(a) THEN 0 ELSE FAdd(FMul(a[i], b[i]), DotFrom(a, b, i + 1))

\* MatVec::dot
Dot(a, b) == DotFrom(a, b, 1)

\* MatVec::_add
VAdd(a, b) == [i \in 1..Len(a) |-> FAdd(a[i], b[i])]

\* MatVec::_sub
VSub(a, b) == [i \in 1..Len(a) |-> FSub(a[i], b[i])]

\* MatVec::scale, and both scalar products k * M and M * k
VScale(v, k) == [i \in 1..Len(v) |-> FMul(v[i], k)]

RECURSIVE SquareSum(_, _)
\* The sum of the squares of the components from i on, in units of
\* 1 / SCALE^2 (not rounded).
SquareSum(v, i) == IF i > Len(v) THEN 0 ELSE v[i] * v[i] + SquareSum(v, i + 1)

\* MatVec::magnitude: the square root of the sum of the squares.
Magnitude(v) == IF \E i \in 1..Len(v) : IsNaN(v[i]) THEN NaN ELSE ISqrt(SquareSum(v, 1))

\* MatVec::normalize: every component divided by the magnitude, so the zero
\* vector becomes (NaN, NaN, NaN).
Normalize(v) == [i \in 1..Len(v) |-> FDiv(v[i], Magnitude(v))]

\* A cross product whose third component adds its two products.
C25_CrossSymmetricZ(a, b) ==
    << FSub(FMul(a[2], b[3]), FMul(a[3], b[2])),
       FSub(FMul(a[3], b[1]), FMul(a[1], b[3])),
       FAdd(FMul(a[1], b[2]), FMul(a[2], b[1])) >>

\* MatVec::cross (3 components)
Cross(a, b) ==
    << FSub(FMul(a[2], b[3]), FMul(a[3], b[2])),
       FSub(FMul(a[3], b[1]), FMul(a[1], b[3])),
       FSub(FMul(a[1], b[2]), FMul(a[2], b[1])) >>

\* MatVec == MatVec, component by component in f32 (NaN equals nothing).
VecEq(a, b) == \A i \in 1..Len(a) : ~IsNaN(a[i]) /\ ~IsNaN(b[i]) /\ a[i] = b[i]

HasNaN(v) == \E i \in 1..Len(v) : IsNaN(v[i])

\* MatVec::perturb(max, roughness): a bounded random rotation scaled by the
\* roughness; rnd is the random draw.  With roughness 0 the vector is kept.
Perturb(v, max, roughness, rnd) ==
    IF roughness = 0 THEN v ELSE VAdd(v, VScale(rnd, FMul(max, roughness)))

\* f32 as u8: saturating, NaN is 0.
AsU8(a) == IF IsNaN(a) \/ a < 0 THEN 0
           ELSE IF a >= 255 * SCALE THEN 255 ELSE a \div SCALE

\* MatVec::to_rgba of a 4-vector: each component * 255.0 as u8.
ToRgba(c) == [i \in 1..4 |-> AsU8(IF IsNaN(c[i]) THEN NaN ELSE c[i] * 255)]

\* ------------------------------------------------------------------------
\* utils
\* ------------------------------------------------------------------------

\* The sphere's rounding precision 0.005.
PRECISION == 5

\* utils::round_precision
RoundPrecision(value, precision) ==
    IF IsNaN(value) THEN NaN
    ELSE LET rounded_value == RoundDiv(value, precision) * precision
         IN IF Abs(value - rounded_value) < precision THEN rounded_value ELSE value

\* utils::color_to_rgba
ColorToRgba(color, alpha) == <<color[1], color[2], color[3], alpha>>

\* utils::rgba_to_color: the first three components.
RgbaToColor(rgba) == <<rgba[1], rgba[2], rgba[3]>>

\* v^(1/2.4) = v^(5/12) = cbrt(v) * cbrt(sqrt(sqrt(v))) for v >= 0.
PowGamma(v) == FMul(FCbrt(v), FCbrt(FSqrt(FSqrt(v))))

\* utils::gamma_correct: 12.92 v up to 0.0031308, else 1.055 v^(1/2.4) - 0.055.
GammaCorrect(value) ==
    IF IsNaN(value) THEN NaN
    ELSE IF value <= SCALE /\ 10000 * value <= 31308 THEN RoundDiv(1292 * value, 100)
    ELSE RoundDiv(1055 * PowGamma(value), 1000) - 55

\* utils::sRGB: gamma on r, g, b; the 4th element passes through.
SRGB(color) == <<GammaCorrect(color[1]), GammaCorrect(color[2]),
                 GammaCorrect(color[3]), color[4]>>

\* utils::appy_exposure: 1 - e^(-c * exposure) on r, g, b; alpha passes through.
ApplyExposure(color, exposure) ==
    << FSub(SCALE, ExpNeg(FMul(color[1], exposure))),
       FSub(SCALE, ExpNeg(FMul(color[2], exposure))),
       FSub(SCALE, ExpNeg(FMul(color[3], exposure))),
       color[4] >>

\* A term of lambert that lets a negative cosine through.
C12_LambertTermSigned(base_color, source) ==
    LET lambert == Dot(source.normal, source.direction)
        temp == VScale(source.color, FMul(source.intensity, lambert))
    IN [i \in 1..3 |-> FMul(temp[i], base_color[i])]

\* One term of utils::lambert: intensity * max(normal . direction, 0) * color,
\* then channel by channel times the base colour.
LambertTerm(base_color, source) ==
    LET lambert == FMax(Dot(source.normal, source.direction), 0)
        temp == VScale(source.color, FMul(source.intensity, lambert))
    IN [i \in 1..3 |-> FMul(temp[i], base_color[i])]

RECURSIVE LambertTotal(_, _, _)
LambertTotal(base_color, sources, i) ==
    IF i = 0 THEN ZeroVec3
    ELSE VAdd(LambertTotal(base_color, sources, i - 1),
              LambertTerm(base_color, sources[i]))

\* The alpha utils::lambert gives its result.
LambertAlpha == SCALE

\* A lambert that leaves the alpha at 0.
C2_LambertTransparent(base_color, ilumination_sources) ==
    ColorToRgba(LambertTotal(base_color, ilumination_sources,
                             Len(ilumination_sources)), 0)

\* A lambert that keeps the first residual only.
C16_LambertFirstOnly(base_color, ilumination_sources) ==
    ColorToRgba(LambertTerm(base_color, ilumination_sources[1]), LambertAlpha)

\* utils::lambert
Lambert(base_color, ilumination_sources) ==
    ColorToRgba(LambertTotal(base_color, ilumination_sources,
                             Len(ilumination_sources)), LambertAlpha)

\* ------------------------------------------------------------------------
\* Ray, Intersection, LightResidual
\* ------------------------------------------------------------------------

\* Ray::new
Ray(origin, direction) == [origin |-> origin, direction |-> direction]

\* An Intersection as intersect builds it: shape_id None, residual false.
Intersection(point, normal, distance) ==
    [shape_id |-> None, point |-> point, normal |-> normal,
     distance |-> distance, residual |-> FALSE]

\* ------------------------------------------------------------------------
\* shapes: Sphere, Plane, Triangle
\* ------------------------------------------------------------------------

\* Coefficients kept as the list was given, whatever its length.
C23_CoefficientsAsGiven(list) == IF Len(list) = 0 THEN None ELSE Some(list)

\* The Option<Vec<f32>> Sphere::new makes of the context's shininess or
\* transparency list: 3 entries as given, 1 entry broadcast, else None.
Coefficients(list) ==
    IF Len(list) = 0 THEN None
    ELSE IF Len(list) = 3 THEN Some(list)
    ELSE IF Len(list) = 1 THEN Some(<<list[1], list[1], list[1]>>)
    ELSE None

\* Sphere::new
SphereNew(center, radius, context) ==
    [kind |-> "sphere", center |-> center, radius |-> radius,
     color |-> context.color, texture |-> context.texture,
     shininess |-> Coefficients(context.shininess),
     transparency |-> Coefficients(context.transparency),
     roughness |-> context.roughness]

\* Plane::new
PlaneNew(coeffs, context) ==
    [kind |-> "plane",
     normal |-> Normalize(<<coeffs[1], coeffs[2], coeffs[3]>>),
     D |-> coeffs[4], color |-> context.color]

\* The vertex Triangle::new takes for index i: i-th from the end when
\* negative, else the (i-1)-th (0-based).
VertexAt(list, i) == IF i < 0 THEN list[Len(list) + i + 1] ELSE list[i]

\* Triangle::new
TriangleNew(indices, context) ==
    [kind |-> "triangle",
     verticies |-> <<VertexAt(context.verticies, indices[1]),
                     VertexAt(context.verticies, indices[2]),
                     VertexAt(context.verticies, indices[3])>>,
     color |-> context.color, texture |-> context.texture, roughness |-> 0]

\* The bound 0.5 of the sphere's normal perturbation.
SpherePerturb == 500

\* Sphere::intersect; rnd is the random draw of perturb.
SphereIntersect(self, ray, rnd) ==
    LET oc == VSub(self.center, ray.origin)
        inside == FLt(Magnitude(oc), self.radius)
        tc == FDiv(Dot(oc, ray.direction), Magnitude(ray.direction))
    IN IF ~inside /\ FLt(tc, 0) THEN None
       ELSE
       LET d == Magnitude(VSub(VAdd(ray.origin, VScale(ray.direction, tc)), self.center))
           d2 == RoundPrecision(FMul(d, d), PRECISION)
           r2 == FMul(self.radius, self.radius)
       IN IF ~inside /\ FLe(r2, d2) THEN None
          ELSE
          LET t_offset == FDiv(FSqrt(FSub(r2, d2)), Magnitude(ray.direction))
              t == IF inside THEN FAdd(tc, t_offset) ELSE FSub(tc, t_offset)
              intersection_point == VAdd(ray.origin, VScale(ray.direction, t))
              normal == Normalize(VSub(intersection_point, self.center))
          IN Some(Intersection(intersection_point,
                               Normalize(Perturb(normal, SpherePerturb, self.roughness, rnd)),
                               t))

\* |x| < 0.0001 in f32.
BelowTenThousandth(x) == ~IsNaN(x) /\ 10000 * x < SCALE

\* The smallest distance Plane::intersect accepts: it rejects t < 0.0.
PlaneMinDistance == 0

\* Plane::intersect
PlaneIntersect(self, ray) ==
    LET denom == Dot(self.normal, ray.direction)
    IN IF BelowTenThousandth(FAbs(denom)) THEN None
       ELSE
       LET t == FDiv(FNeg(FAdd(Dot(self.normal, ray.origin), self.D)), denom)
       IN IF FLt(t, PlaneMinDistance) THEN None
          ELSE Some(Intersection(VAdd(ray.origin, VScale(ray.direction, t)),
                                 self.normal, t))

\* The bound 0.01 of the triangle's normal perturbation.
TrianglePerturb == 10

\* A triangle hit wherever the ray meets the triangle's plane.
C20_TriangleWithoutBarycentricTest(self, ray, rnd) ==
    LET edge1 == VSub(self.verticies[2], self.verticies[1])
        edge2 == VSub(self.verticies[3], self.verticies[1])
        normal == Normalize(Cross(edge1, edge2))
        denom == Dot(normal, ray.direction)
        t == FDiv(Dot(normal, VSub(self.verticies[1], ray.origin)), denom)
    IN IF denom = 0 \/ BelowTenThousandth(t) THEN None
       ELSE Some(Intersection(VAdd(ray.origin, VScale(ray.direction, t)), normal, t))

\* A triangle whose normal is never turned toward the ray's origin.
C21_TriangleNeverFlips(self, ray, rnd) ==
    LET edge1 == VSub(self.verticies[2], self.verticies[1])
        edge2 == VSub(self.verticies[3], self.verticies[1])
        h == Cross(ray.direction, edge2)
        a == Dot(edge1, h)
        f == FDiv(SCALE, a)
        s == VSub(ray.origin, self.verticies[1])
        q == Cross(s, edge1)
        u == FMul(f, Dot(s, h))
        v == FMul(f, Dot(ray.direction, q))
        t == FMul(f, Dot(edge2, q))
    IN IF BelowTenThousandth(FAbs(a)) \/ FLt(u, 0) \/ FGt(u, SCALE) \/ FLt(v, 0)
          \/ FGt(FAdd(u, v), SCALE) \/ BelowTenThousandth(t)
       THEN None
       ELSE Some(Intersection(VAdd(ray.origin, VScale(ray.direction, t)),
                              Normalize(Cross(edge1, edge2)), t))

\* Triangle::intersect; rnd is the random draw of perturb.
TriangleIntersect(self, ray, rnd) ==
    LET edge1 == VSub(self.verticies[2], self.verticies[1])
        edge2 == VSub(self.verticies[3], self.verticies[1])
        h == Cross(ray.direction, edge2)
        a == Dot(edge1, h)
    IN IF BelowTenThousandth(FAbs(a)) THEN None
       ELSE
       LET f == FDiv(SCALE, a)
           s == VSub(ray.origin, self.verticies[1])
           u == FMul(f, Dot(s, h))
       IN IF FLt(u, 0) \/ FGt(u, SCALE) THEN None
          ELSE
          LET q == Cross(s, edge1)
              v == FMul(f, Dot(ray.direction, q))
          IN IF FLt(v, 0) \/ FGt(FAdd(u, v), SCALE) THEN None
             ELSE
             LET t == FMul(f, Dot(edge2, q))
             IN IF BelowTenThousandth(t) THEN None
                ELSE
                LET n0 == Normalize(Cross(edge1, edge2))
                    n1 == IF FGt(Dot(n0, ray.direction), 0) THEN VScale(n0, -SCALE) ELSE n0
                IN Some(Intersection(VAdd(ray.origin, VScale(ray.direction, t)),
                                     Normalize(Perturb(n1, TrianglePerturb, self.roughness, rnd)),
                                     t))

\* SceneObject::intersect, dispatched on the kind of primitive.
Intersect(shape, ray, rnd) ==
    CASE shape.kind = "sphere" -> SphereIntersect(shape, ray, rnd)
      [] shape.kind = "plane" -> PlaneIntersect(shape, ray)
      [] shape.kind = "triangle" -> TriangleIntersect(shape, ray, rnd)

\* SceneObject::color_at of a primitive without texture: the flat colour.
ColorAt(shape, point) == shape.color

\* SceneObject::shininess: the sphere's own, None by default.
Shininess(shape) == IF shape.kind = "sphere" THEN shape.shininess ELSE None

\* SceneObject::transparency: the sphere's own, None by default.
Transparency(shape) == IF shape.kind = "sphere" THEN shape.transparency ELSE None

\* ------------------------------------------------------------------------
\* light sources: Sun, Bulb
\* ------------------------------------------------------------------------

\* Sun::new
SunNew(direction, context) ==
    [kind |-> "sun", direction |-> Normalize(direction), color |-> context.color]

\* Bulb::new
BulbNew(position, context) ==
    [kind |-> "bulb", position |-> position, color |-> context.color]

\* LightSource::compute_direction
ComputeDirection(light, origin) ==
    IF light.kind = "sun" THEN light.direction
    ELSE Normalize(VSub(light.position, origin))

\* LightSource::light_color
LightColor(light) == light.color

\* LightSource::intensity: 1 for a Sun, 1 / distance^2 for a Bulb.
LightIntensity(light, ray) ==
    IF light.kind = "sun" THEN SCALE
    ELSE LET distance == Magnitude(VSub(light.position, ray.origin))
         IN FDiv(SCALE, FMul(distance, distance))

\* ------------------------------------------------------------------------
\* ray generation
\* ------------------------------------------------------------------------

Max(a, b) == IF a > b THEN a ELSE b

\* An s_x scaled by the width, not by the larger of width and height.
C18_ScreenXByWidth(px, context) ==
    FDiv(FSub(FMul(2 * SCALE, px[1]), context.width * SCALE), context.width * SCALE)

\* The screen coordinates s_x, s_y of generate_primary_ray, with the larger
\* of width and height as the common scale.
ScreenX(px, context) ==
    FDiv(FSub(FMul(2 * SCALE, px[1]), context.width * SCALE),
         Max(context.width, context.height) * SCALE)

ScreenY(px, context) ==
    FSub(context.height * SCALE, FMul(2 * SCALE, px[2]))

ScreenYScaled(px, context) ==
    FDiv(ScreenY(px, context), Max(context.width, context.height) * SCALE)

\* The sentinel "no ray" of the fisheye projection.
NoRay == Ray(ZeroVec3, ZeroVec3)

\* The orthonormal basis of the camera: right = forward x up, up = right x forward.
CameraRight(context) == Normalize(Cross(context.forward, Normalize(context.up)))

CameraUp(context) == Normalize(Cross(CameraRight(context), context.forward))

\* A depth of field that moves the eye by the draw even without dof
\* parameters.
C7_AlwaysJitter(ray, context, rnd) ==
    LET new_origin == VAdd(context.eye, <<rnd[1], rnd[2], 0>>)
        focal_point == VAdd(ray.origin, VScale(ray.direction, 3 * SCALE))
    IN Ray(new_origin, Normalize(VSub(focal_point, new_origin)))

\* The depth-of-field step of the flat projection: the eye moved by
\* lens_radius * (rand_x * right + rand_y * up), the ray re-aimed at the
\* focal point of the unmoved ray.  rnd = <<rand_x, rand_y>> is the draw.
DepthOfField(ray, context, rnd) ==
    IF IsNone(context.dof) THEN ray
    ELSE LET focus == Unwrap(context.dof)[1]
             lens_radius == Unwrap(context.dof)[2]
             lens_offset == VScale(VAdd(VScale(CameraRight(context), rnd[1]),
                                        VScale(CameraUp(context), rnd[2])), lens_radius)
             new_origin == VAdd(context.eye, lens_offset)
             focal_point == VAdd(ray.origin, VScale(ray.direction, focus))
         IN Ray(new_origin, Normalize(VSub(focal_point, new_origin)))

\* Ray::generate_primary_ray; px = <<x, y>> in fixed point, rnd the draw of
\* the depth of field.
GeneratePrimaryRay(px, context, rnd) ==
    LET s_x == ScreenX(px, context)
        s_y == ScreenYScaled(px, context)
        right == CameraRight(context)
        up == CameraUp(context)
    IN CASE context.projection = "FLAT" ->
              DepthOfField(
                  Ray(context.eye,
                      Normalize(VAdd(VAdd(context.forward, VScale(right, s_x)),
                                     VScale(up, s_y)))),
                  context, rnd)
         [] context.projection = "FISHEYE" ->
              IF FGt(FAdd(FMul(s_x, s_x), FMul(s_y, s_y)), SCALE) THEN NoRay
              ELSE Ray(context.eye,
                       Normalize(VAdd(VAdd(
                           VScale(context.forward,
                                  FSqrt(FSub(FSub(SCALE, FMul(s_x, s_x)), FMul(s_y, s_y)))),
                           VScale(right, s_x)), VScale(up, s_y))))
         [] context.projection = "PANORAMIC" ->
              \* theta and phi in units of pi
              LET theta == FSub(FMul(FDiv(px[1], context.width * SCALE), 2 * SCALE), SCALE)
                  phi == FSub(FDiv(FSub(context.height * SCALE, px[2]),
                                   context.height * SCALE), SCALE \div 2)
              IN Ray(context.eye,
                     Normalize(VAdd(VAdd(
                         VScale(context.forward, FMul(CosPi(theta), CosPi(phi))),
                         VScale(right, FMul(SinPi(theta), CosPi(phi)))),
                         VScale(up, SinPi(phi)))))

\* Ray::generate_light_ray
GenerateLightRay(intersection, light_source) ==
    Ray(intersection.point, ComputeDirection(light_source, intersection.point))

\* A ray that goes on through the surface in the incoming direction.
C29_GenerateTransmittedRay(intersection, incoming_ray) ==
    Ray(intersection.point, Normalize(incoming_ray.direction))

\* Ray::generate_reflection_ray
GenerateReflectionRay(intersection, incoming_ray) ==
    LET normal == Normalize(intersection.normal)
        direction == Normalize(incoming_ray.direction)
        dot == FClamp(Dot(direction, normal), -SCALE, SCALE)
    IN Ray(intersection.point,
           Normalize(VSub(direction, VScale(normal, FMul(2 * SCALE, dot)))))

\* ------------------------------------------------------------------------
\* Scene: the nearest-hit scans
\* ------------------------------------------------------------------------

\* A Scene constructed with one level of global illumination.
C27_SceneNewWithGi == [shapes |-> << >>, light_sources |-> << >>, gi_depth |-> 1]

\* Scene::new
SceneNew == [shapes |-> << >>, light_sources |-> << >>, gi_depth |-> 0]

\* An add_shape that inserts the primitive at the head of the list.
C26_AddShapeInFront(scene, shape) == [scene EXCEPT !.shapes = <<shape>> \o @]

\* Scene::add_shape
AddShape(scene, shape) == [scene EXCEPT !.shapes = Append(@, shape)]

\* Scene::add_light_source
AddLightSource(scene, light) == [scene EXCEPT !.light_sources = Append(@, light)]

\* The payload of primitive i (0-based) stamped with its index, as both scans
\* push it: the empty list when intersect returns None.
Stamped(payload, i) ==
    IF IsSome(payload) THEN <<[Unwrap(payload) EXCEPT !.shape_id = Some(i)]>> ELSE << >>

\* Whether the minimum loop replaces its current minimum by candidate i.
ReplacesMinimum(i, minimum) ==
    IsNone(minimum) \/ FLt(i.distance, Unwrap(minimum).distance)

RECURSIVE MinimumFrom(_, _, _)
\* The second loop of both scans: the minimum over intersections[k..].
MinimumFrom(intersections, k, minimum) ==
    IF k > Len(intersections) THEN minimum
    ELSE MinimumFrom(intersections, k + 1,
                     IF ReplacesMinimum(intersections[k], minimum)
                     THEN Some(intersections[k]) ELSE minimum)

RECURSIVE Intersections(_, _, _, _)
\* The first loop of find_minimum_intersection, from primitive i on.
Intersections(shapes, ray, rnd, i) ==
    IF i >= Len(shapes) THEN << >>
    ELSE Stamped(Intersect(shapes[i + 1], ray, rnd), i)
         \o Intersections(shapes, ray, rnd, i + 1)

\* Scene::find_minimum_intersection
FindMinimumIntersection(scene, ray, rnd) ==
    MinimumFrom(Intersections(scene.shapes, ray, rnd, 0), 1, None)

\* The self-intersection bias 0.065.
BIAS == 65

\* ray with its origin advanced by the bias along its direction.
Biased(ray) == [ray EXCEPT !.origin = VAdd(ray.origin, VScale(ray.direction, BIAS))]

\* A loop that never advances the origin.
C5_NeverBias(local_ray, shape_id, i) == local_ray

\* What the loop of find_minimum_intersection_with_point does to local_ray
\* on reaching primitive i: biased when i is the originating primitive.
BiasStep(local_ray, shape_id, i) == IF shape_id = i THEN Biased(local_ray) ELSE local_ray

RECURSIVE LocalRay(_, _, _)
\* local_ray as primitive i is tested: the loop's steps 0..i applied to ray.
LocalRay(ray, shape_id, i) ==
    BiasStep(IF i = 0 THEN ray ELSE LocalRay(ray, shape_id, i - 1), shape_id, i)

RECURSIVE IntersectionsWithPoint(_, _, _, _, _)
\* The first loop of find_minimum_intersection_with_point, from primitive i on.
IntersectionsWithPoint(shapes, ray, shape_id, rnd, i) ==
    IF i >= Len(shapes) THEN << >>
    ELSE Stamped(Intersect(shapes[i + 1], LocalRay(ray, shape_id, i), rnd), i)
         \o IntersectionsWithPoint(shapes, ray, shape_id, rnd, i + 1)

\* Scene::find_minimum_intersection_with_point
FindMinimumIntersectionWithPoint(scene, ray, intersection, rnd) ==
    IF IsNone(intersection) THEN FindMinimumIntersection(scene, ray, rnd)
    ELSE MinimumFrom(
             IntersectionsWithPoint(scene.shapes, ray,
                                    Unwrap(Unwrap(intersection).shape_id), rnd, 0),
             1, None)

\* The residual _find_light_sources records for an unoccluded light.
LightResidual(light_source, light_ray, primary_intersection) ==
    [source_id |-> None,
     color |-> LightColor(light_source),
     intensity |-> LightIntensity(light_source, light_ray),
     direction |-> light_ray.direction,
     normal |-> primary_intersection.normal]

\* A shadow test that finds every light unoccluded.
C13_NeverOccluded(scene, primary_intersection, light_source, rnd) == FALSE

\* A shadow test that lets a bulb through when the nearest primitive on the
\* shadow ray is farther than the bulb.
C28_OccludedBeforeLight(scene, primary_intersection, light_source, rnd) ==
    LET hit == FindMinimumIntersectionWithPoint(
                   scene, GenerateLightRay(primary_intersection, light_source),
                   Some(primary_intersection), rnd)
    IN /\ IsSome(hit)
       /\ light_source.kind = "bulb" =>
              FLt(Unwrap(hit).distance,
                  Magnitude(VSub(light_source.position, primary_intersection.point)))

\* Whether the shadow ray toward light_source from the hit is occluded.
Occluded(scene, primary_intersection, light_source, rnd) ==
    IsSome(FindMinimumIntersectionWithPoint(
               scene, GenerateLightRay(primary_intersection, light_source),
               Some(primary_intersection), rnd))

RECURSIVE FindLightSourcesFrom(_, _, _, _)
FindLightSourcesFrom(scene, primary_intersection, rnd, i) ==
    IF i > Len(scene.light_sources) THEN << >>
    ELSE LET light_source == scene.light_sources[i]
             light_ray == GenerateLightRay(primary_intersection, light_source)
         IN (IF Occluded(scene, primary_intersection, light_source, rnd) THEN << >>
             ELSE <<LightResidual(light_source, light_ray, primary_intersection)>>)
            \o FindLightSourcesFrom(scene, primary_intersection, rnd, i + 1)

\* Scene::_find_light_sources
FindLightSources(scene, primary_intersection, rnd) ==
    FindLightSourcesFrom(scene, primary_intersection, rnd, 1)

\* Scene::generate_random_direction_in_hemisphere; rnd = <<r1, r2>> is the draw.
GenerateRandomDirectionInHemisphere(normal, rnd) ==
    LET theta == 2 * rnd[1]      \* in units of pi
        sqrt_r2 == FSqrt(rnd[2])
        local_dir == << FMul(CosPi(theta), sqrt_r2), FMul(SinPi(theta), sqrt_r2),
                        FSqrt(SCALE - rnd[2]) >>
        uz == Normalize(normal)
        ux == IF FGt(FAbs(normal[1]), SCALE \div 10)
              THEN Normalize(<<FNeg(normal[2]), normal[1], 0>>)
              ELSE Normalize(<<0, FNeg(normal[3]), normal[2]>>)
        uy == Cross(uz, ux)
    IN << Dot(ux, local_dir), Dot(uy, local_dir), Dot(uz, local_dir) >>

\* The ray of the global-illumination sample: from the hit moved 0.001 along
\* its normal, in the random direction.
GiRay(colision, random_direction) ==
    Ray(VAdd(colision.point, VScale(colision.normal, 1)), random_direction)

\* The residual the global-illumination sample is folded in as.
GiResidual(gi_color, random_direction, colision) ==
    [source_id |-> None, color |-> gi_color, intensity |-> SCALE,
     direction |-> random_direction,
     normal |-> Normalize(Cross(random_direction, colision.normal))]

\* A compositing that adds the reflection to the whole base colour.
C11_CompositeKeepsBase(shininess, transparency, reflection_color, refraction_color, color, i) ==
    FAdd(FAdd(FMul(shininess[i], reflection_color[i]),
              FMul(FMul(FSub(SCALE, shininess[i]), transparency[i]), refraction_color[i])),
         color[i])

\* The compositing loop of _recursive_raytrace, channel i.
Composite(shininess, transparency, reflection_color, refraction_color, color, i) ==
    FAdd(FAdd(FMul(shininess[i], reflection_color[i]),
              FMul(FMul(FSub(SCALE, shininess[i]), transparency[i]), refraction_color[i])),
         FMul(FMul(FSub(SCALE, shininess[i]), FSub(SCALE, transparency[i])), color[i]))

\* What _recursive_raytrace returns when nothing is hit.
MissColor == <<0, 0, 0, 0>>

\* A shadow that returns the base colour's white instead of black.
C3_ShadowWhite == <<SCALE, SCALE, SCALE, SCALE>>

\* What _recursive_raytrace returns for a hit no light reaches.
ShadowColor == <<0, 0, 0, SCALE>>

\* ------------------------------------------------------------------------
\* RayTracer: construction and the directives of render_from_file
\* ------------------------------------------------------------------------

\* InputState::new
InputStateNew ==
    [color |-> <<SCALE, SCALE, SCALE>>, texture |-> "none", verticies |-> << >>,
     texcoords |-> << >>, shininess |-> << >>, transparency |-> << >>,
     roughness |-> 0, index_of_refraction |-> 1458]

\* CameraState::new
CameraStateNew(width, height) ==
    [width |-> width, height |-> height, forward |-> <<0, 0, -SCALE>>,
     up |-> <<0, SCALE, 0>>, eye |-> ZeroVec3, exposure |-> None,
     projection |-> "FLAT", dof |-> None]

\* ImageBuffer::new(width, height): every pixel (0, 0, 0, 0).
ImageBufferNew(width, height) ==
    [p \in (0..(width - 1)) \X (0..(height - 1)) |-> <<0, 0, 0, 0>>]

\* The default bounce limit of RayTracer::new.
DefaultBounceLimit == 4

\* The default anti-aliasing sample count of RayTracer::new.
DefaultAaLimit == 0

\* A RayTracer whose image buffer is allocated height pixels wide and width
\* pixels high.
C30_RayTracerNewTransposedImage(height, width) ==
    [scene |-> SceneNew, height |-> height, width |-> width,
     bounce_limit |-> DefaultBounceLimit, anti_aliasing |-> DefaultAaLimit,
     input_state |-> InputStateNew,
     image |-> ImageBufferNew(height, width),
     camera |-> CameraStateNew(width, height)]

\* RayTracer::new(height, width)
RayTracerNew(height, width) ==
    [scene |-> SceneNew, height |-> height, width |-> width,
     bounce_limit |-> DefaultBounceLimit, anti_aliasing |-> DefaultAaLimit,
     input_state |-> InputStateNew,
     image |-> ImageBufferNew(width, height),
     camera |-> CameraStateNew(width, height)]

\* The RayTracer render_from_file builds from the header: it reads the 2nd
\* token into `height`, the 3rd into `width`, and calls new(width, height).
RayTracerFromHeader(header) ==
    LET height == header[1]
        width == header[2]
    IN RayTracerNew(width, height)

Vec3Of(elements) == <<elements[1], elements[2], elements[3]>>

\* The directives that end the process: `transparency` reaches todo!(), an
\* unknown action reaches exit(1).
Directives ==
    {"sphere", "sun", "color", "expose", "up", "eye", "forward", "fisheye",
     "panorama", "plane", "xyz", "tri", "bulb", "texture", "texcoord", "shininess",
     "bounces", "ior", "roughness", "aa", "dof"}

\* One arm of the match of render_from_file: the RayTracer after the directive.
ApplyDirective(rt, action, elements) ==
    CASE action = "sphere" ->
           [rt EXCEPT !.scene = AddShape(@, SphereNew(Vec3Of(elements), elements[4],
                                                      rt.input_state))]
      [] action = "sun" ->
           [rt EXCEPT !.scene = AddLightSource(@, SunNew(Vec3Of(elements), rt.input_state))]
      [] action = "color" -> [rt EXCEPT !.input_state.color = Vec3Of(elements)]
      [] action = "expose" -> [rt EXCEPT !.camera.exposure = Some(elements[1])]
      [] action = "up" -> [rt EXCEPT !.camera.up = Vec3Of(elements)]
      [] action = "eye" -> [rt EXCEPT !.camera.eye = Vec3Of(elements)]
      [] action = "forward" -> [rt EXCEPT !.camera.forward = Vec3Of(elements)]
      [] action = "fisheye" -> [rt EXCEPT !.camera.projection = "FISHEYE"]
      [] action = "panorama" -> [rt EXCEPT !.camera.projection = "PANORAMIC"]
      [] action = "plane" ->
           [rt EXCEPT !.scene = AddShape(@, PlaneNew(elements, rt.input_state))]
      [] action = "xyz" -> [rt EXCEPT !.input_state.verticies = Append(@, Vec3Of(elements))]
      [] action = "tri" ->
           [rt EXCEPT !.scene = AddShape(@, TriangleNew(elements, rt.input_state))]
      [] action = "bulb" ->
           [rt EXCEPT !.scene = AddLightSource(@, BulbNew(Vec3Of(elements), rt.input_state))]
      [] action = "texture" -> [rt EXCEPT !.input_state.texture = elements[1]]
      [] action = "texcoord" ->
           [rt EXCEPT !.input_state.texcoords = Append(@, <<elements[1], elements[2]>>)]
      [] action = "shininess" -> [rt EXCEPT !.input_state.shininess = elements]
      [] action = "bounces" -> [rt EXCEPT !.bounce_limit = elements[1]]
      [] action = "ior" -> [rt EXCEPT !.input_state.index_of_refraction = elements[1]]
      [] action = "roughness" -> [rt EXCEPT !.input_state.roughness = elements[1]]
      [] action = "aa" -> [rt EXCEPT !.anti_aliasing = elements[1]]
      [] action = "dof" -> [rt EXCEPT !.camera.dof = Some(<<elements[1], elements[2]>>)]

\* ------------------------------------------------------------------------
\* The scene descriptions the model loads.  A file is its header (the 2nd and
\* 3rd token of the first line) and its directive lines, numbers already
\* parsed to f32; "#" is a comment line.
\* ------------------------------------------------------------------------

D(action, elements) == [action |-> action, elements |-> elements]

\* Two mirror spheres face each other across the eye, each lit by one sun.
FileMirrors ==
    [name |-> "mirrors", header |-> <<2, 2>>,
     lines |-> << D("#", << >>),
                  D("shininess", <<500>>),
                  D("sun", <<0, 1000, 1000>>),
                  D("sun", <<0, 1000, -1000>>),
                  D("sphere", <<0, 0, -3000, 1000>>),
                  D("sphere", <<0, 0, 3000, 1000>>) >>]

\* A fisheye camera with two jittered samples per pixel; the sun is behind
\* the sphere.
FileFisheye ==
    [name |-> "fisheye", header |-> <<2, 2>>,
     lines |-> << D("fisheye", << >>),
                  D("aa", <<2>>),
                  D("color", <<1000, 0, 0>>),
                  D("shininess", <<500>>),
                  D("sun", <<0, 0, -1000>>),
                  D("sphere", <<0, 0, -3000, 1000>>) >>]

\* Depth of field over a sphere, exposed, under a bulb; the shininess has
\* two entries.
FileDof ==
    [name |-> "dof", header |-> <<2, 2>>,
     lines |-> << D("dof", <<3000, 500>>),
                  D("expose", <<2000>>),
                  D("color", <<1000, 500, 0>>),
                  D("bulb", <<0, 2000, 0>>),
                  D("shininess", <<500, 500>>),
                  D("sphere", <<0, 0, -3000, 1000>>) >>]

\* A plane through the eye, a plane and a sphere touching it at the same
\* distance, a triangle; the sphere is declared after the plane it touches.
FilePlanes ==
    [name |-> "planes", header |-> <<2, 2>>,
     lines |-> << D("bounces", <<2>>),
                  D("sun", <<0, 0, 1000>>),
                  D("color", <<1000, 0, 0>>),
                  D("plane", <<0, 0, 1000, 4000>>),
                  D("color", <<0, 1000, 0>>),
                  D("shininess", <<1000, 0, 0>>),
                  D("sphere", <<0, 0, -5000, 1000>>),
                  D("plane", <<0, 1000, 0, 0>>),
                  D("xyz", <<-3000, -1000, -2000>>),
                  D("xyz", <<-1000, -1000, -2000>>),
                  D("xyz", <<-2000, 1000, -2000>>),
                  D("tri", <<1, 2, -1>>) >>]

\* The eye inside a small sphere whose rounded squared axis distance
\* exceeds its squared radius; a plane behind it; a panoramic camera and no
\* light.
FileInside ==
    [name |-> "inside", header |-> <<2, 2>>,
     lines |-> << D("panorama", << >>),
                  D("bounces", <<0>>),
                  D("sphere", <<498, 0, 0, 499>>),
                  D("plane", <<0, 0, 1000, 5000>>) >>]

\* A rough sphere facing the sun, with an orange bulb above the eye.
FileRough ==
    [name |-> "rough", header |-> <<2, 2>>,
     lines |-> << D("roughness", <<500>>),
                  D("sun", <<0, 0, 1000>>),
                  D("color", <<1000, 500, 0>>),
                  D("bulb", <<0, 2000, 0>>),
                  D("sphere", <<0, 0, -3000, 1000>>) >>]

\* A file whose second directive is the unimplemented `transparency`.
FileTransparency ==
    [name |-> "transparency", header |-> <<1, 1>>,
     lines |-> << D("color", <<0, 0, 1000>>),
                  D("transparency", <<500>>),
                  D("sphere", <<0, 0, -3000, 1000>>) >>]

\* An image of 1 by 2 pixels. A bulb between the eye and a sphere, on the
\* ray of pixel (0, 1); a plane behind the eye, beyond the bulb as seen from
\* the sphere.
FileBeyond ==
    [name |-> "beyond", header |-> <<1, 2>>,
     lines |-> << D("bulb", <<-250, 0, -500>>),
                  D("sphere", <<-1000, 0, -2000, 1000>>),
                  D("plane", <<0, 0, 1000, -3000>>) >>]

Files ==
    {FileMirrors, FileFisheye, FileDof, FilePlanes, FileInside, FileRough, FileTransparency,
     FileBeyond}

\* ------------------------------------------------------------------------
\* The random draws
\* ------------------------------------------------------------------------

\* gen_range(-1.0..1.0) twice, for the lens offset of the depth of field.
DofDraws == {<<0, 0>>, <<-1000, 500>>}

\* gen_range(-0.5..0.5), for one coordinate of an anti-aliasing sample.
JitterDraws == {-500, 250}

\* The random vector of MatVec::perturb.
PerturbDraws == {<<0, 0, 0>>, <<1000, 0, 0>>}

\* r1, r2 of generate_random_direction_in_hemisphere.
GiDraws == {<<0, 500>>, <<250, 0>>}

\* The largest gi_depth a Scene is given.
MaxGiDepth == 1

\* ------------------------------------------------------------------------
\* The program: render_from_file, render, _compute_pixel_value and the
\* activations of _recursive_raytrace
\* ------------------------------------------------------------------------

VARIABLES
    file,          \* the scene description being rendered
    line_no,       \* the line the loop of render_from_file is at (1-based)
    raytracer,     \* the RayTracer
    pc,            \* "load", "render", "sample", "trace", "done", "aborted"
    x, y,          \* the pixel the loops of render are at
    throw,         \* the sample the loop of _compute_pixel_value is at
    pixel_color,   \* the accumulator of _compute_pixel_value
    stack,         \* the activations of _recursive_raytrace, outermost first
    ret,           \* the activation that has just returned, with its value
    first_image,   \* the image of the first render, once a second one started
    probe          \* a function of the program applied on its own: its
                   \* arguments and, once applied, its result

vars == <<file, line_no, raytracer, pc, x, y, throw, pixel_color, stack, ret, first_image,
         probe>>

\* An activation of _recursive_raytrace on entry.
Frame(ray, optional_intersection, bounce_limit, gi_depth) ==
    [ray |-> ray, optional_intersection |-> optional_intersection,
     bounce_limit |-> bounce_limit, gi_depth |-> gi_depth,
     pc |-> "call", primary_colision |-> None, color |-> ZeroVec3,
     ilumination_sources |-> << >>, random_direction |-> ZeroVec3,
     reflection_color |-> ZeroVec3]

\* Scene::trace_ray: the outermost activation.
TraceRay(scene, ray, bounce_limit) == Frame(ray, None, bounce_limit, scene.gi_depth)

Top == stack[Len(stack)]

Caller == SubSeq(stack, 1, Len(stack) - 1)

\* `return value` of the innermost activation.
Return(frame, value) ==
    /\ stack' = Caller
    /\ ret' = Some([value |-> value, frame |-> frame])

\* The innermost activation moves on to the state `frame`.
Step(frame) ==
    /\ stack' = [stack EXCEPT ![Len(stack)] = frame]
    /\ ret' = None

\* The innermost activation calls _recursive_raytrace and waits in `frame`.
Call(frame, callee) ==
    /\ stack' = Append([stack EXCEPT ![Len(stack)] = frame], callee)
    /\ ret' = None

\* shininess().unwrap_or(vec![0.0, 0.0, 0.0]), and the same for transparency
UnwrapOrZero(option) == IF IsSome(option) THEN Unwrap(option) ELSE ZeroVec3

\* The reflection made whatever the bounce limit.
C1_AlwaysReflect(bounce_limit) == TRUE

\* A reflection still made with one bounce left.
C14_ReflectAtOne(bounce_limit) == bounce_limit > 0

\* The guard of the reflection: bounce_limit > 1.
ReflectionGuard(bounce_limit) == bounce_limit > 1

\* shininess.iter().any(|&s| s > 0.0)
AnyPositive(list) == \E i \in 1..Len(list) : FGt(list[i], 0)

\* The guard of the global-illumination sample: gi_depth > 0.
GiGuard(gi_depth) == gi_depth > 0

\* The value _recursive_raytrace returns for a lit hit: the compositing loop,
\* then utils::lambert.
Shaded(scene, frame, reflection_color) ==
    LET shape == scene.shapes[Unwrap(Unwrap(frame.primary_colision).shape_id) + 1]
        shininess == UnwrapOrZero(Shininess(shape))
        transparency == UnwrapOrZero(Transparency(shape))
        color == [i \in 1..3 |-> Composite(shininess, transparency, reflection_color,
                                           ZeroVec3, frame.color, i)]
    IN Lambert(color, frame.ilumination_sources)

\* render's pixel after (x, y): y is the inner loop.  Past the last pixel
\* render is over.
NextPixel ==
    IF y + 1 < raytracer.height THEN /\ x' = x /\ y' = y + 1 /\ pc' = "render"
    ELSE /\ x' = x + 1 /\ y' = 0
         /\ pc' = IF x + 1 < raytracer.width THEN "render" ELSE "done"

\* A pixel store that also takes the last primitive off the scene.
C8_PutPixelPopsShape(rt, px, py, value) ==
    [rt EXCEPT !.image[<<px, py>>] = ToRgba(value),
               !.scene.shapes = SubSeq(@, 1, Len(@) - 1)]

\* A pixel store that gamma-encodes before it applies the exposure.
C24_PutPixelGammaFirst(rt, px, py, value) ==
    LET encoded == SRGB(value)
        exposed == IF IsSome(rt.camera.exposure)
                   THEN ApplyExposure(encoded, Unwrap(rt.camera.exposure)) ELSE encoded
    IN [rt EXCEPT !.image[<<px, py>>] = ToRgba(exposed)]

\* The end of the body of render's loop: exposure, sRGB, put_pixel.
PutPixel(rt, px, py, value) ==
    LET exposed == IF IsSome(rt.camera.exposure)
                   THEN ApplyExposure(value, Unwrap(rt.camera.exposure)) ELSE value
    IN [rt EXCEPT !.image[<<px, py>>] = ToRgba(SRGB(exposed))]

\* The average _compute_pixel_value returns when anti-aliasing.
Averaged(sum, anti_aliasing) == [i \in 1..4 |-> FDiv(sum[i], anti_aliasing * SCALE)]

\* The state render_from_file is in after the header: the RayTracer built,
\* the loop at the first directive line.  A Scene is constructed with
\* gi_depth 0; the field is public, and every depth up to MaxGiDepth is drawn.
Init ==
    /\ file \in Files
    /\ line_no = 1
    /\ \E gi_depth \in 0..MaxGiDepth :
           raytracer = [RayTracerFromHeader(file.header) EXCEPT !.scene.gi_depth = gi_depth]
    /\ pc = "load"
    /\ x = 0 /\ y = 0 /\ throw = 0
    /\ pixel_color = <<0, 0, 0, 0>>
    /\ stack = << >>
    /\ ret = None
    /\ first_image = None
    /\ probe = None

\* One turn of the loop of render_from_file over the lines.
LoadLine ==
    /\ pc = "load"
    /\ line_no <= Len(file.lines)
    /\ LET line == file.lines[line_no]
       IN IF line.action = "#"
          THEN /\ raytracer' = raytracer /\ pc' = pc
          ELSE IF line.action \in Directives
          THEN /\ raytracer' = ApplyDirective(raytracer, line.action, line.elements)
               /\ pc' = pc
          ELSE /\ raytracer' = raytracer /\ pc' = "aborted"
    /\ line_no' = line_no + 1
    /\ UNCHANGED <<probe, file, x, y, throw, pixel_color, stack, ret, first_image>>

\* raytracer.render() once the lines are read.
StartRender ==
    /\ pc = "load"
    /\ line_no > Len(file.lines)
    /\ pc' = "render"
    /\ x' = 0 /\ y' = 0
    /\ UNCHANGED <<probe, file, line_no, raytracer, throw, pixel_color, stack, ret, first_image>>

\* The head of the body of render's loop: the primary ray of the pixel; the
\* pixel is skipped when its direction is the zero vector.
RenderPixel ==
    /\ pc = "render"
    /\ \E rnd \in DofDraws :
         LET ray == GeneratePrimaryRay(<<x * SCALE, y * SCALE>>, raytracer.camera, rnd)
         IN IF VecEq(ray.direction, ZeroVec3)
            THEN /\ NextPixel
                 /\ UNCHANGED <<throw, pixel_color>>
            ELSE /\ pc' = "sample"
                 /\ throw' = 0
                 /\ pixel_color' = <<0, 0, 0, 0>>
                 /\ UNCHANGED <<x, y>>
    /\ UNCHANGED <<probe, file, line_no, raytracer, stack, ret, first_image>>

\* _compute_pixel_value handing a ray to trace_ray: the ray of the pixel
\* without anti-aliasing, else that of the next jittered sample.
Sample ==
    /\ pc = "sample"
    /\ \E rnd \in DofDraws, jx \in JitterDraws, jy \in JitterDraws :
         LET px == IF raytracer.anti_aliasing = 0 THEN <<x * SCALE, y * SCALE>>
                   ELSE <<x * SCALE + jx, y * SCALE + jy>>
             ray == GeneratePrimaryRay(px, raytracer.camera, rnd)
         IN stack' = <<TraceRay(raytracer.scene, ray, raytracer.bounce_limit)>>
    /\ pc' = "trace"
    /\ ret' = None
    /\ UNCHANGED <<probe, file, line_no, raytracer, x, y, throw, pixel_color, first_image>>

\* _recursive_raytrace from its entry: the nearest hit; the miss returns,
\* a hit takes its colour and its light sources.
TraceIntersect ==
    /\ pc = "trace" /\ stack # << >> /\ Top.pc = "call"
    /\ \E rnd \in PerturbDraws, rnd2 \in PerturbDraws :
         LET primary_colision ==
                 FindMinimumIntersectionWithPoint(raytracer.scene, Top.ray,
                                                  Top.optional_intersection, rnd)
         IN IF IsNone(primary_colision)
            THEN Return(Top, MissColor)
            ELSE LET colision == Unwrap(primary_colision)
                     shape_id == Unwrap(colision.shape_id)
                 IN Step([Top EXCEPT
                            !.primary_colision = primary_colision,
                            !.color = ColorAt(raytracer.scene.shapes[shape_id + 1],
                                              colision.point),
                            !.ilumination_sources =
                                FindLightSources(raytracer.scene, colision, rnd2),
                            !.pc = IF GiGuard(Top.gi_depth) THEN "gi" ELSE "shade"])
    /\ UNCHANGED <<probe, file, line_no, raytracer, pc, x, y, throw, pixel_color, first_image>>

\* The global-illumination sample: the recursive call with gi_depth - 1.
TraceGI ==
    /\ pc = "trace" /\ stack # << >> /\ Top.pc = "gi"
    /\ \E rnd \in GiDraws :
         LET colision == Unwrap(Top.primary_colision)
             random_direction == GenerateRandomDirectionInHemisphere(colision.normal, rnd)
         IN Call([Top EXCEPT !.random_direction = random_direction, !.pc = "gi_wait"],
                 Frame(GiRay(colision, random_direction), None,
                       Top.bounce_limit, Top.gi_depth - 1))
    /\ UNCHANGED <<probe, file, line_no, raytracer, pc, x, y, throw, pixel_color, first_image>>

\* The sample's colour comes back and is pushed as one more residual.
TraceGIReturn ==
    /\ pc = "trace" /\ stack # << >> /\ Top.pc = "gi_wait" /\ IsSome(ret)
    /\ Step([Top EXCEPT
               !.ilumination_sources =
                   Append(@, GiResidual(RgbaToColor(Unwrap(ret).value),
                                        Top.random_direction,
                                        Unwrap(Top.primary_colision))),
               !.pc = "shade"])
    /\ UNCHANGED <<probe, file, line_no, raytracer, pc, x, y, throw, pixel_color, first_image>>

\* From the shadow test on: black in a shadow, the recursive call of the
\* reflection with bounce_limit - 1, or the shaded colour.
TraceShade ==
    /\ pc = "trace" /\ stack # << >> /\ Top.pc = "shade"
    /\ LET colision == Unwrap(Top.primary_colision)
           shape == raytracer.scene.shapes[Unwrap(colision.shape_id) + 1]
       IN IF Top.ilumination_sources = << >>
          THEN Return(Top, ShadowColor)
          ELSE IF ReflectionGuard(Top.bounce_limit)
                  /\ AnyPositive(UnwrapOrZero(Shininess(shape)))
          THEN Call([Top EXCEPT !.pc = "refl_wait"],
                    Frame(GenerateReflectionRay(colision, Top.ray), Some(colision),
                          Top.bounce_limit - 1, Top.gi_depth))
          ELSE Return(Top, Shaded(raytracer.scene, Top, ZeroVec3))
    /\ UNCHANGED <<probe, file, line_no, raytracer, pc, x, y, throw, pixel_color, first_image>>

\* The reflection's colour comes back; the shaded colour is returned.
TraceReflectionReturn ==
    /\ pc = "trace" /\ stack # << >> /\ Top.pc = "refl_wait" /\ IsSome(ret)
    /\ LET reflection_color == RgbaToColor(Unwrap(ret).value)
       IN Return([Top EXCEPT !.reflection_color = reflection_color],
                 Shaded(raytracer.scene, Top, reflection_color))
    /\ UNCHANGED <<probe, file, line_no, raytracer, pc, x, y, throw, pixel_color, first_image>>

\* trace_ray returns to _compute_pixel_value: the value itself without
\* anti-aliasing, else it is added up and, after the last sample, averaged;
\* the pixel's value goes through the rest of render's loop body.
SampleReturn ==
    /\ pc = "trace" /\ stack = << >> /\ IsSome(ret)
    /\ LET value == Unwrap(ret).value
           sum == VAdd(pixel_color, value)
       IN IF raytracer.anti_aliasing = 0
          THEN /\ raytracer' = PutPixel(raytracer, x, y, value)
               /\ NextPixel
               /\ UNCHANGED <<throw, pixel_color>>
          ELSE IF throw + 1 < raytracer.anti_aliasing
          THEN /\ pixel_color' = sum
               /\ throw' = throw + 1
               /\ pc' = "sample"
               /\ UNCHANGED <<raytracer, x, y>>
          ELSE /\ pixel_color' = sum
               /\ throw' = throw + 1
               /\ raytracer' = PutPixel(raytracer, x, y,
                                        Averaged(sum, raytracer.anti_aliasing))
               /\ NextPixel
    /\ ret' = None
    /\ UNCHANGED <<probe, file, line_no, stack, first_image>>

\* The same file rendered a second time: the first image is kept aside.
RenderAgain ==
    /\ pc = "done"
    /\ IsNone(first_image)
    /\ first_image' = Some(raytracer.image)
    /\ raytracer' = [raytracer EXCEPT !.image = ImageBufferNew(raytracer.width,
                                                                raytracer.height)]
    /\ pc' = "render"
    /\ x' = 0 /\ y' = 0
    /\ UNCHANGED <<probe, file, line_no, throw, pixel_color, stack, ret>>

Render ==
    \/ RenderPixel
    \/ Sample
    \/ TraceIntersect
    \/ TraceShade
    \/ TraceReflectionReturn
    \/ SampleReturn

Next ==
    \/ LoadLine
    \/ StartRender
    \/ Render
    \/ TraceGI
    \/ TraceGIReturn

Spec == Init /\ [][Next]_vars

\* The program as render_from_file constructs it (the Scene of Scene::new),
\* and the same file rendered twice.
InitConstructed == Init /\ raytracer = RayTracerFromHeader(file.header)

NextTwice ==
    \/ LoadLine
    \/ StartRender
    \/ Render
    \/ RenderAgain

SpecTwice == InitConstructed /\ [][NextTwice]_vars

\* ------------------------------------------------------------------------
\* Termination of the recursion
\* ------------------------------------------------------------------------

\* The activation k + 1 was called by activation k for its reflection.
IsReflectionCall(k) ==
    /\ stack[k].pc = "refl_wait"
    /\ stack[k].bounce_limit > 1
    /\ stack[k + 1].bounce_limit = stack[k].bounce_limit - 1
    /\ stack[k + 1].gi_depth = stack[k].gi_depth

\* The activation k + 1 was called by activation k for its
\* global-illumination sample.
IsGiCall(k) ==
    /\ stack[k].pc = "gi_wait"
    /\ stack[k].gi_depth > 0
    /\ stack[k + 1].gi_depth = stack[k].gi_depth - 1
    /\ stack[k + 1].bounce_limit = stack[k].bounce_limit

\* C1: every recursive call of _recursive_raytrace lowers bounce_limit by 1
\* (the reflection, made only with bounce_limit > 1) or gi_depth by 1 (the
\* global-illumination sample, made only with gi_depth > 0); no activation
\* has a counter below 0; and the recursive calls nested inside trace_ray's
\* own call are never more than bounce_limit + gi_depth of the render.
C1_BoundedRecursion ==
    /\ \A k \in 1..Len(stack) : stack[k].bounce_limit >= 0 /\ stack[k].gi_depth >= 0
    /\ \A k \in 1..(Len(stack) - 1) : IsReflectionCall(k) \/ IsGiCall(k)
    /\ stack # << >> =>
         /\ stack[1].bounce_limit = raytracer.bounce_limit
         /\ stack[1].gi_depth = raytracer.scene.gi_depth
         /\ Len(stack) - 1 <= raytracer.bounce_limit + raytracer.scene.gi_depth

\* A global-illumination sample whose reflections go all the way down: the
\* deepest nesting the counters allow.
C1_Witness ==
    /\ Len(stack) >= 4
    /\ raytracer.scene.gi_depth > 0
    /\ \E k \in 1..(Len(stack) - 1) : IsGiCall(k)
    /\ \E k \in 1..(Len(stack) - 1) : IsReflectionCall(k)
    /\ Len(stack) - 1 = raytracer.bounce_limit - 1 + raytracer.scene.gi_depth

\* ------------------------------------------------------------------------
\* The value an activation returns
\* ------------------------------------------------------------------------

\* The activation that has just returned found a hit.
ReturnedHit == IsSome(ret) /\ IsSome(Unwrap(ret).frame.primary_colision)

\* The activation that has just returned is trace_ray's own.
ReturnedFromTraceRay == pc = "trace" /\ stack = << >> /\ IsSome(ret)

\* C2: the RGBA an activation returns, trace_ray's own included, has alpha 0
\* exactly when its ray hit no primitive, and is then (0, 0, 0, 0); whenever
\* a primitive was hit, lit or in shadow, the alpha is 1.
C2_AlphaTellsMissFromHit ==
    IsSome(ret) =>
        LET value == Unwrap(ret).value
            primary_colision == Unwrap(ret).frame.primary_colision
        IN /\ value[4] = 0 <=> IsNone(primary_colision)
           /\ IsNone(primary_colision) => value = <<0, 0, 0, 0>>
           /\ IsSome(primary_colision) => value[4] = SCALE

\* trace_ray has returned for a hit in shadow: black like a miss, alpha 1.
C2_Witness ==
    /\ ReturnedFromTraceRay
    /\ ReturnedHit
    /\ RgbaToColor(Unwrap(ret).value) = ZeroVec3
    /\ Unwrap(ret).value[4] = SCALE

\* Every light of the scene is occluded from the hit (none when there is no
\* light), whatever the draw.
AllLightsOccluded(scene, colision) ==
    \A i \in 1..Len(scene.light_sources) : \A rnd \in PerturbDraws :
        Occluded(scene, colision, scene.light_sources[i], rnd)

\* C3: with gi_depth 0, an activation whose ray hit a primitive from which
\* every light is occluded (or in a scene without lights) returns exactly
\* (0, 0, 0, 1), whatever the primitive's colour and shininess and the
\* bounce limit.
C3_ShadowIsOpaqueBlack ==
    (/\ ReturnedHit
     /\ Unwrap(ret).frame.gi_depth = 0
     /\ AllLightsOccluded(raytracer.scene, Unwrap(Unwrap(ret).frame.primary_colision)))
    => Unwrap(ret).value = <<0, 0, 0, SCALE>>

\* trace_ray has returned for a hit on a coloured, shiny sphere that hides
\* the only sun, with bounces left.
C3_Witness ==
    /\ ReturnedFromTraceRay
    /\ ReturnedHit
    /\ Unwrap(ret).frame.gi_depth = 0
    /\ Unwrap(ret).frame.bounce_limit > 1
    /\ raytracer.scene.light_sources # << >>
    /\ AllLightsOccluded(raytracer.scene, Unwrap(Unwrap(ret).frame.primary_colision))
    /\ LET shape == raytracer.scene.shapes[
                        Unwrap(Unwrap(Unwrap(ret).frame.primary_colision).shape_id) + 1]
       IN /\ AnyPositive(UnwrapOrZero(Shininess(shape)))
          /\ shape.color # <<0, 0, 0>>

\* ------------------------------------------------------------------------
\* The scans for the nearest hit
\* ------------------------------------------------------------------------

\* The indices (0-based) of the primitives of the scene.
ShapeIds == 0..(Len(raytracer.scene.shapes) - 1)

\* The scans with an originating intersection the program has made or is
\* about to make: the reflection rays, which are the rays of the activations
\* called with an originating intersection, and the shadow rays from the
\* hits of the activations.  Each is <<ray, originating intersection>>.
ReflectionScans ==
    { <<stack[k].ray, Unwrap(stack[k].optional_intersection)>> :
          k \in {j \in 1..Len(stack) : IsSome(stack[j].optional_intersection)} }

ShadowScans ==
    { <<GenerateLightRay(Unwrap(stack[k].primary_colision),
                         raytracer.scene.light_sources[l]),
        Unwrap(stack[k].primary_colision)>> :
          k \in {j \in 1..Len(stack) : IsSome(stack[j].primary_colision)},
          l \in 1..Len(raytracer.scene.light_sources) }

ScansWithPoint == ReflectionScans \cup ShadowScans

C5_NoSelfHitAtStart ==
    \A scan \in ScansWithPoint : \A rnd \in PerturbDraws :
        LET p == Unwrap(scan[2].shape_id)
            found == FindMinimumIntersectionWithPoint(raytracer.scene, scan[1],
                                                      Some(scan[2]), rnd)
        IN /\ LocalRay(scan[1], p, p) = Biased(scan[1])
           /\ (IsSome(found) /\ Unwrap(found).shape_id = Some(p)) =>
                  /\ ~FLe(FAbs(Unwrap(found).distance), BIAS \div 10)
                  /\ ~VecEq(Unwrap(found).point, scan[1].origin)

\* A shadow ray that enters the sphere it starts on and is stopped by the far
\* side of that same sphere.
C5_Witness ==
    \E scan \in ShadowScans : \E rnd \in PerturbDraws :
        LET found == FindMinimumIntersectionWithPoint(raytracer.scene, scan[1],
                                                      Some(scan[2]), rnd)
        IN /\ IsSome(found)
           /\ Unwrap(found).shape_id = scan[2].shape_id
           /\ FGt(Unwrap(found).distance, SCALE)

\* The rays scanned without an originating intersection: those of the
\* activations called with None.
PlainScans ==
    { stack[k].ray : k \in {j \in 1..Len(stack) : IsNone(stack[j].optional_intersection)} }

\* C6: find_minimum_intersection returns None iff no primitive is hit; else
\* the hit of the primitive whose index it is stamped with, whose distance
\* is no larger than that of any primitive's hit, and among equal distances
\* the one of the earliest primitive.
C6_NearestHit ==
    \A ray \in PlainScans : \A rnd \in PerturbDraws :
        LET found == FindMinimumIntersection(raytracer.scene, ray, rnd)
            hit(i) == Intersect(raytracer.scene.shapes[i + 1], ray, rnd)
        IN /\ IsNone(found) <=> \A i \in ShapeIds : IsNone(hit(i))
           /\ IsSome(found) =>
                LET id == Unwrap(Unwrap(found).shape_id)
                IN /\ id \in ShapeIds
                   /\ <<Unwrap(found)>> = Stamped(hit(id), id)
                   /\ \A i \in ShapeIds :
                        IsSome(hit(i)) =>
                          /\ FLe(Unwrap(found).distance, Unwrap(hit(i)).distance)
                          /\ Unwrap(hit(i)).distance = Unwrap(found).distance => id <= i

\* ------------------------------------------------------------------------
\* Rendering
\* ------------------------------------------------------------------------

\* Both renders of the file are over.
RenderedTwice == pc = "done" /\ IsSome(first_image)

\* Neither global illumination nor anti-aliasing.
NoGiNoAa == raytracer.scene.gi_depth = 0 /\ raytracer.anti_aliasing = 0

\* No primitive of the scene has a roughness.
NoRoughness ==
    \A i \in 1..Len(raytracer.scene.shapes) :
        raytracer.scene.shapes[i].kind = "plane" \/ raytracer.scene.shapes[i].roughness = 0

\* C7 as stated: with gi_depth 0 and anti-aliasing 0, the two renders of any
\* accepted file give the same bytes.
C7_SameImageTwice ==
    (RenderedTwice /\ NoGiNoAa) => raytracer.image = Unwrap(first_image)

\* C7, amended: with gi_depth 0 and anti-aliasing 0, and also without a dof
\* directive and without roughness, the two renders of a file give the same
\* bytes.
C7_SameImageTwiceWithoutLensOrRoughness ==
    (RenderedTwice /\ NoGiNoAa /\ IsNone(raytracer.camera.dof) /\ NoRoughness)
    => raytracer.image = Unwrap(first_image)

\* Two renders without any random step, of a scene that left something in
\* the image.
C7_Witness ==
    /\ RenderedTwice /\ NoGiNoAa /\ IsNone(raytracer.camera.dof) /\ NoRoughness
    /\ \E p \in DOMAIN raytracer.image : raytracer.image[p] # <<0, 0, 0, 0>>

\* C8: once loading is over, no step changes the Scene: its shapes, its
\* light sources and its gi_depth stay what they are through trace_ray,
\* every recursive call and the rest of render.
C8_SceneReadOnly == [][pc # "load" => raytracer'.scene = raytracer.scene]_vars

\* A render that went through a reflection and a global-illumination sample
\* and stored a lit pixel, over a scene of two primitives and two lights.
C8_Witness ==
    /\ pc = "done"
    /\ raytracer.scene.gi_depth > 0
    /\ Len(raytracer.scene.shapes) = 2 /\ Len(raytracer.scene.light_sources) = 2
    /\ \E p \in DOMAIN raytracer.image : raytracer.image[p][1] > 0

\* C9: every Intersection the nearest-hit search returns has a distance
\* above 0.
C9_PositiveDistance ==
    \A k \in 1..Len(stack) :
        IsSome(stack[k].primary_colision) =>
            FGt(Unwrap(stack[k].primary_colision).distance, 0)

\* C10: the ray trace_ray is called with has a direction of length 1 (to
\* the rounding of the arithmetic) and is not the no-ray.
C10_TracedRayIsUnit ==
    stack # << >> =>
        /\ stack[1].ray # NoRay
        /\ ~IsNaN(Magnitude(stack[1].ray.direction))
        /\ Abs(Magnitude(stack[1].ray.direction) - SCALE) <= 2

\* ------------------------------------------------------------------------
\* C11: the albedo of a lit hit
\* ------------------------------------------------------------------------

\* The activation that has just returned hit a primitive some light reaches.
ReturnedLitHit == ReturnedHit /\ Unwrap(ret).frame.ilumination_sources # << >>

\* C11: at every lit hit the value returned is Lambert shading of the albedo
\* shininess * reflection + (1 - shininess) * transparency * refraction
\* + (1 - shininess) * (1 - transparency) * base, channel by channel, under
\* the hit's light residuals: base is the primitive's colour at the hit
\* point, the refraction colour is black, the reflection colour is the one
\* the recursive trace returned and black when no reflection was traced.
C11_AlbedoIsComposited ==
    ReturnedLitHit =>
        LET frame == Unwrap(ret).frame
            colision == Unwrap(frame.primary_colision)
            shape == raytracer.scene.shapes[Unwrap(colision.shape_id) + 1]
            s == UnwrapOrZero(Shininess(shape))
            t == UnwrapOrZero(Transparency(shape))
            base == ColorAt(shape, colision.point)
            reflection == frame.reflection_color
            refraction == ZeroVec3
            albedo == [i \in 1..3 |->
                          FAdd(FAdd(FMul(s[i], reflection[i]),
                                    FMul(FMul(FSub(SCALE, s[i]), t[i]), refraction[i])),
                               FMul(FMul(FSub(SCALE, s[i]), FSub(SCALE, t[i])), base[i]))]
        IN /\ Unwrap(ret).value = Lambert(albedo, frame.ilumination_sources)
           /\ frame.pc # "refl_wait" => reflection = ZeroVec3

\* A lit hit on a shiny primitive has returned, its reflection traced and
\* not black, its base colour not black.
C11_Witness ==
    /\ ReturnedLitHit
    /\ Unwrap(ret).frame.pc = "refl_wait"
    /\ Unwrap(ret).frame.reflection_color # ZeroVec3
    /\ Unwrap(ret).frame.color # ZeroVec3
    /\ RgbaToColor(Unwrap(ret).value) # ZeroVec3

\* ------------------------------------------------------------------------
\* The functions of the program called on their own, with arguments drawn
\* from bounded sets: utils::lambert, SceneObject::intersect,
\* Ray::generate_primary_ray, MatVec::dot, MatVec::cross
\* ------------------------------------------------------------------------

\* The longest list of residuals handed to lambert.
MaxSources == 2

\* LightResiduals around the normal (0, 0, 1): a light straight above,
\* oblique, at the horizon and behind the surface, at two intensities, in
\* two colours.
Residuals ==
    {[source_id |-> None, color |-> color, intensity |-> intensity,
      direction |-> direction, normal |-> <<0, 0, SCALE>>] :
        color \in {<<SCALE, SCALE, SCALE>>, <<SCALE, 500, 0>>},
        intensity \in {SCALE, 250},
        direction \in {<<0, 0, SCALE>>, <<0, 600, 800>>, <<SCALE, 0, 0>>,
                       <<0, 600, -800>>}}

\* The largest coordinate, in whole units, of the grid the ray origins are
\* drawn from.
MaxCoord == 2

\* The primitives intersect is called on, all of roughness 0: the unit
\* sphere at the origin, a sphere that nearly touches the origin from the
\* inside, a sphere that holds part of the grid, the planes z = -4 and
\* y = 0, the triangle (0,0,0) (1,0,0) (0,1,0), one facing the eye at
\* z = -2, and the first triangle with its vertices in the opposite order.
Primitives ==
    {SphereNew(<<0, 0, 0>>, SCALE, InputStateNew),
     SphereNew(<<498, 0, 0>>, 499, InputStateNew),
     SphereNew(<<0, 0, -SCALE>>, 2500, InputStateNew),
     PlaneNew(<<0, 0, SCALE, 4000>>, InputStateNew),
     PlaneNew(<<0, SCALE, 0, 0>>, InputStateNew),
     TriangleNew(<<1, 2, 3>>,
                 [InputStateNew EXCEPT
                     !.verticies = <<<<0, 0, 0>>, <<SCALE, 0, 0>>, <<0, SCALE, 0>>>>]),
     TriangleNew(<<1, 2, -1>>,
                 [InputStateNew EXCEPT
                     !.verticies = <<<<-3000, -1000, -2000>>, <<-1000, -1000, -2000>>,
                                     <<-2000, 1000, -2000>>>>]),
     TriangleNew(<<1, 2, 3>>,
                 [InputStateNew EXCEPT
                     !.verticies = <<<<0, 0, 0>>, <<0, SCALE, 0>>, <<SCALE, 0, 0>>>>])}

\* The rays intersect is called with: origins on the grid, and two more
\* further out; directions of length 1 along the axes and oblique.
Rays ==
    {Ray(origin, direction) :
        origin \in {<<a * SCALE, b * SCALE, c * SCALE>> :
                        a, b, c \in (-MaxCoord)..MaxCoord}
                   \cup {<<10000, 0, 0>>, <<200, 200, 5000>>},
        direction \in {<<SCALE, 0, 0>>, <<-SCALE, 0, 0>>, <<0, SCALE, 0>>,
                       <<0, -SCALE, 0>>, <<0, 0, SCALE>>, <<0, 0, -SCALE>>,
                       <<0, 600, -800>>, <<-600, 0, 800>>}}

\* The cameras generate_primary_ray is called with: the three projections,
\* square, wide and tall images, the eye at the origin and away from it.
Cameras ==
    {[CameraStateNew(size[1], size[2]) EXCEPT !.projection = projection, !.eye = eye] :
        size \in {<<2, 2>>, <<4, 2>>, <<2, 4>>},
        projection \in {"FLAT", "FISHEYE", "PANORAMIC"},
        eye \in {<<0, 0, 0>>, <<SCALE, 2000, 3000>>}}

\* The largest component, in whole units, of the vectors dot and cross are
\* called with.
MaxComponent == 1

\* The calls made: the function and its arguments, no result yet.
Calls ==
    {[fn |-> "lambert", base_color |-> base_color,
      ilumination_sources |-> ilumination_sources, result |-> None] :
        base_color \in {<<SCALE, SCALE, SCALE>>, <<500, 0, 250>>, <<SCALE, 500, 0>>},
        ilumination_sources \in UNION {[1..n -> Residuals] : n \in 0..MaxSources}}
    \cup {[fn |-> "intersect", shape |-> shape, ray |-> ray, result |-> None] :
              shape \in Primitives, ray \in Rays}
    \cup UNION {{[fn |-> "generate_primary_ray",
                  through_pixel |-> <<px * SCALE + jx, py * SCALE + jy>>,
                  context |-> context, result |-> None] :
                    px \in 0..(context.width - 1), py \in 0..(context.height - 1),
                    jx \in JitterDraws \cup {0}, jy \in JitterDraws \cup {0}} :
                 context \in Cameras}
    \cup {[fn |-> fn, self |-> <<a1 * SCALE, a2 * SCALE, a3 * SCALE>>,
           other |-> <<b1 * SCALE, b2 * SCALE, b3 * SCALE>>, result |-> None] :
              fn \in {"dot", "cross"},
              a1 \in (-MaxComponent)..MaxComponent, a2 \in (-MaxComponent)..MaxComponent,
              a3 \in (-MaxComponent)..MaxComponent, b1 \in (-MaxComponent)..MaxComponent,
              b2 \in (-MaxComponent)..MaxComponent, b3 \in (-MaxComponent)..MaxComponent}

\* Before a call: no scene is being loaded or rendered.
InitCall ==
    /\ probe \in Calls
    /\ file = FileMirrors
    /\ line_no = 1
    /\ raytracer = RayTracerFromHeader(file.header)
    /\ pc = "call"
    /\ x = 0 /\ y = 0 /\ throw = 0
    /\ pixel_color = <<0, 0, 0, 0>>
    /\ stack = << >>
    /\ ret = None
    /\ first_image = None

\* utils::lambert(base_color, ilumination_sources)
CallLambert ==
    /\ probe.fn = "lambert" /\ IsNone(probe.result)
    /\ probe' = [probe EXCEPT !.result = Some(Lambert(probe.base_color,
                                                     probe.ilumination_sources))]
    /\ UNCHANGED <<file, line_no, raytracer, pc, x, y, throw, pixel_color, stack, ret,
                   first_image>>

\* shape.intersect(&ray), the primitive being of roughness 0: no draw.
CallIntersect ==
    /\ probe.fn = "intersect" /\ IsNone(probe.result)
    /\ probe' = [probe EXCEPT
                    !.result = Some(Intersect(probe.shape, probe.ray, ZeroVec3))]
    /\ UNCHANGED <<file, line_no, raytracer, pc, x, y, throw, pixel_color, stack, ret,
                   first_image>>

\* Ray::generate_primary_ray(through_pixel, &context), without depth of
\* field: no draw.
CallGeneratePrimaryRay ==
    /\ probe.fn = "generate_primary_ray" /\ IsNone(probe.result)
    /\ probe' = [probe EXCEPT
                    !.result = Some(GeneratePrimaryRay(probe.through_pixel, probe.context,
                                                       <<0, 0>>))]
    /\ UNCHANGED <<file, line_no, raytracer, pc, x, y, throw, pixel_color, stack, ret,
                   first_image>>

\* self.dot(other)
CallDot ==
    /\ probe.fn = "dot" /\ IsNone(probe.result)
    /\ probe' = [probe EXCEPT !.result = Some(Dot(probe.self, probe.other))]
    /\ UNCHANGED <<file, line_no, raytracer, pc, x, y, throw, pixel_color, stack, ret,
                   first_image>>

\* self.cross(&other)
CallCross ==
    /\ probe.fn = "cross" /\ IsNone(probe.result)
    /\ probe' = [probe EXCEPT !.result = Some(Cross(probe.self, probe.other))]
    /\ UNCHANGED <<file, line_no, raytracer, pc, x, y, throw, pixel_color, stack, ret,
                   first_image>>

NextCall ==
    \/ CallLambert
    \/ CallIntersect
    \/ CallGeneratePrimaryRay
    \/ CallDot
    \/ CallCross

SpecCall == InitCall /\ [][NextCall]_vars

\* ------------------------------------------------------------------------
\* C12: utils::lambert
\* ------------------------------------------------------------------------

\* C12: lambert returns, per colour channel, the sum over the residuals of
\* max(normal . direction, 0) * intensity * light colour * albedo, with
\* alpha 1; one more residual that faces away from the surface
\* (normal . direction <= 0) leaves the result as it is; and with
\* non-negative albedo, colours and intensities no channel is negative and
\* one more residual never lowers a channel.
C12_LambertIsClampedSum ==
    (probe.fn = "lambert" /\ IsSome(probe.result)) =>
        LET albedo == probe.base_color
            sources == probe.ilumination_sources
            value == Unwrap(probe.result)
            cosine(r) == IF FGt(Dot(r.normal, r.direction), 0)
                         THEN Dot(r.normal, r.direction) ELSE 0
            term(r, c) == FMul(FMul(FMul(cosine(r), r.intensity), r.color[c]), albedo[c])
            sum[k \in 0..Len(sources)] ==
                IF k = 0 THEN ZeroVec3
                ELSE [c \in 1..3 |-> sum[k - 1][c] + term(sources[k], c)]
            NonNegative(r) == r.intensity >= 0 /\ \A c \in 1..3 : r.color[c] >= 0
            more(r) == Lambert(albedo, Append(sources, r))
        IN /\ RgbaToColor(value) = sum[Len(sources)]
           /\ value[4] = SCALE
           /\ \A r \in Residuals :
                  FLe(Dot(r.normal, r.direction), 0) => more(r) = value
           /\ ((\A c \in 1..3 : albedo[c] >= 0)
               /\ \A k \in 1..Len(sources) : NonNegative(sources[k]))
              => /\ \A c \in 1..3 : value[c] >= 0
                 /\ \A r \in Residuals :
                        NonNegative(r) => \A c \in 1..3 : more(r)[c] >= value[c]

\* lambert has returned a colour that is not black for two residuals, one
\* of them behind the surface.
C12_Witness ==
    /\ probe.fn = "lambert" /\ IsSome(probe.result)
    /\ Len(probe.ilumination_sources) = 2
    /\ FLt(Dot(probe.ilumination_sources[2].normal,
               probe.ilumination_sources[2].direction), 0)
    /\ FGt(Dot(probe.ilumination_sources[1].normal,
               probe.ilumination_sources[1].direction), 0)
    /\ RgbaToColor(Unwrap(probe.result)) # ZeroVec3

\* ------------------------------------------------------------------------
\* C13: the light residuals of a hit
\* ------------------------------------------------------------------------

\* The activations that have a hit: those on the stack and the one that has
\* just returned.
Activations ==
    {stack[k] : k \in {j \in 1..Len(stack) : IsSome(stack[j].primary_colision)}}
    \cup (IF ReturnedHit THEN {Unwrap(ret).frame} ELSE {})

\* C13: the list _find_light_sources returned for a hit holds one residual
\* for each light whose shadow ray (from the hit point, toward
\* compute_direction(point), scanned with the hit as originating
\* intersection) meets no primitive, none for the other lights, in the
\* order the lights were declared; each residual has the light's colour, its
\* intensity at the point, the shadow ray's direction and the hit's normal.
C13_OneResidualPerUnoccludedLight ==
    \A frame \in Activations :
        LET colision == Unwrap(frame.primary_colision)
            lights == raytracer.scene.light_sources
            pushed == frame.gi_depth > 0 /\ frame.pc \in {"shade", "refl_wait"}
            found == IF pushed
                     THEN SubSeq(frame.ilumination_sources, 1,
                                 Len(frame.ilumination_sources) - 1)
                     ELSE frame.ilumination_sources
            shadow(l) == Ray(colision.point, ComputeDirection(lights[l], colision.point))
            unoccluded == {l \in 1..Len(lights) :
                              \A rnd \in PerturbDraws :
                                  IsNone(FindMinimumIntersectionWithPoint(
                                             raytracer.scene, shadow(l), Some(colision), rnd))}
            nth(k) == CHOOSE l \in unoccluded :
                          Cardinality({j \in unoccluded : j < l}) = k - 1
        IN /\ Len(found) = Cardinality(unoccluded)
           /\ \A k \in 1..Len(found) :
                  /\ found[k].color = LightColor(lights[nth(k)])
                  /\ found[k].intensity = LightIntensity(lights[nth(k)], shadow(nth(k)))
                  /\ found[k].direction = shadow(nth(k)).direction
                  /\ found[k].normal = colision.normal

\* A hit has the residuals of two lights that differ in colour and in
\* intensity, the sun's first.
C13_Witness ==
    \E frame \in Activations :
        /\ Len(raytracer.scene.light_sources) = 2
        /\ frame.gi_depth = 0
        /\ Len(frame.ilumination_sources) = 2
        /\ frame.ilumination_sources[1].color # frame.ilumination_sources[2].color
        /\ frame.ilumination_sources[1].intensity = SCALE
        /\ FLt(frame.ilumination_sources[2].intensity, SCALE)

\* ------------------------------------------------------------------------
\* C14: when the reflection is traced
\* ------------------------------------------------------------------------

\* C14: an activation with a lit hit has traced a reflection exactly when
\* its bounce_limit is above 1 and some channel of the primitive's shininess
\* is above 0; the activation it called has bounce_limit - 1, the same
\* gi_depth, the hit as originating intersection and its ray starting at the
\* hit point; with bounce_limit <= 1 no reflection is traced and the
\* reflection colour is (0, 0, 0).
C14_ReflectionIffBouncesAndShine ==
    /\ ReturnedLitHit =>
           LET frame == Unwrap(ret).frame
               colision == Unwrap(frame.primary_colision)
               shape == raytracer.scene.shapes[Unwrap(colision.shape_id) + 1]
               shininess == UnwrapOrZero(Shininess(shape))
           IN /\ frame.pc = "refl_wait"
                  <=> (frame.bounce_limit > 1 /\ \E i \in 1..3 : FGt(shininess[i], 0))
              /\ frame.bounce_limit <= 1
                  => (frame.pc # "refl_wait" /\ frame.reflection_color = <<0, 0, 0>>)
    /\ \A k \in 1..Len(stack) :
           stack[k].pc = "refl_wait" =>
               /\ stack[k].ilumination_sources # << >>
               /\ k < Len(stack) =>
                      /\ stack[k + 1].bounce_limit = stack[k].bounce_limit - 1
                      /\ stack[k + 1].gi_depth = stack[k].gi_depth
                      /\ stack[k + 1].optional_intersection = stack[k].primary_colision
                      /\ stack[k + 1].ray.origin = Unwrap(stack[k].primary_colision).point

\* A lit hit on a shiny primitive has returned to the reflection that traced
\* it, with bounce_limit 1 and no reflection of its own.
C14_Witness ==
    /\ ReturnedLitHit
    /\ stack # << >> /\ Top.pc = "refl_wait"
    /\ Unwrap(ret).frame.bounce_limit = 1
    /\ Unwrap(ret).frame.bounce_limit = Top.bounce_limit - 1
    /\ Unwrap(ret).frame.pc = "shade"
    /\ AnyPositive(UnwrapOrZero(Shininess(
           raytracer.scene.shapes[
               Unwrap(Unwrap(Unwrap(ret).frame.primary_colision).shape_id) + 1])))

\* ------------------------------------------------------------------------
\* C15: the normal of the residuals
\* ------------------------------------------------------------------------

\* C15: every residual an activation holds for Lambert shading, those of
\* the lights and the one of the global-illumination sample, has for normal
\* the surface normal of the activation's hit; the sample's residual has
\* intensity 1.
C15_ResidualNormalIsSurfaceNormal ==
    \A frame \in Activations :
        \A k \in 1..Len(frame.ilumination_sources) :
            /\ frame.ilumination_sources[k].normal = Unwrap(frame.primary_colision).normal
            /\ (frame.gi_depth > 0 /\ frame.pc \in {"shade", "refl_wait"}
                /\ k = Len(frame.ilumination_sources))
               => frame.ilumination_sources[k].intensity = SCALE

\* ------------------------------------------------------------------------
\* C16: the order of the lights
\* ------------------------------------------------------------------------

\* C16: with gi_depth = 0 the colour an activation returns for a hit does
\* not depend on the order in which the lights were declared: with the
\* scene's light_sources in any other order, the same hit and the same
\* reflection colour give the same value, shadow or shaded.
C16_LightOrderIrrelevant ==
    (ReturnedHit /\ Unwrap(ret).frame.gi_depth = 0) =>
        LET frame == Unwrap(ret).frame
            lights == raytracer.scene.light_sources
            n == Len(lights)
            orders == {p \in [1..n -> 1..n] : \A i, j \in 1..n : p[i] = p[j] => i = j}
            permuted(p) == [raytracer.scene EXCEPT
                               !.light_sources = [k \in 1..n |-> lights[p[k]]]]
            sources(p, rnd) == FindLightSources(permuted(p),
                                                Unwrap(frame.primary_colision), rnd)
            value(p, rnd) ==
                IF sources(p, rnd) = << >> THEN ShadowColor
                ELSE Shaded(permuted(p),
                            [frame EXCEPT !.ilumination_sources = sources(p, rnd)],
                            frame.reflection_color)
        IN \A p \in orders, rnd \in PerturbDraws : value(p, rnd) = Unwrap(ret).value

\* A hit lit by two lights, whose two terms of the Lambert sum differ, has
\* returned.
C16_Witness ==
    /\ ReturnedLitHit
    /\ Unwrap(ret).frame.gi_depth = 0
    /\ Len(Unwrap(ret).frame.ilumination_sources) = 2
    /\ LET frame == Unwrap(ret).frame
           first == LambertTerm(frame.color, frame.ilumination_sources[1])
           second == LambertTerm(frame.color, frame.ilumination_sources[2])
       IN first # second /\ first # ZeroVec3 /\ second # ZeroVec3

\* ------------------------------------------------------------------------
\* C17: degenerate geometry
\* ------------------------------------------------------------------------

\* C17: from every ray origin, a ray nearly parallel to a plane
\* (|N . D| < 0.0001), a triangle whose determinant a is nearly zero
\* (|a| < 0.0001) and a ray whose squared distance from the sphere's centre
\* to the ray's axis, rounded to 0.005, is not below the squared radius each
\* give None; and no Intersection returned has an undefined distance.
C17_DegeneraciesGiveNone ==
    (probe.fn = "intersect" /\ IsSome(probe.result)) =>
        LET shape == probe.shape
            ray == probe.ray
            found == Unwrap(probe.result)
            edge1 == VSub(shape.verticies[2], shape.verticies[1])
            edge2 == VSub(shape.verticies[3], shape.verticies[1])
            a == Dot(edge1, Cross(ray.direction, edge2))
            tc == Dot(VSub(shape.center, ray.origin), ray.direction)
            foot == VAdd(ray.origin, VScale(ray.direction, tc))
            d == Magnitude(VSub(foot, shape.center))
            d2 == RoundPrecision(FMul(d, d), PRECISION)
            degenerate ==
                CASE shape.kind = "plane" ->
                       BelowTenThousandth(FAbs(Dot(shape.normal, ray.direction)))
                  [] shape.kind = "triangle" -> BelowTenThousandth(FAbs(a))
                  [] shape.kind = "sphere" -> FLe(FMul(shape.radius, shape.radius), d2)
        IN /\ degenerate => IsNone(found)
           /\ IsSome(found) => ~IsNaN(Unwrap(found).distance)

\* ------------------------------------------------------------------------
\* C18: the fisheye projection
\* ------------------------------------------------------------------------

\* C18: under the fisheye projection generate_primary_ray returns the
\* no-ray (origin and direction zero) exactly when s_x^2 + s_y^2 > 1, with
\* s_x = (2x - width) / max(width, height) and
\* s_y = (height - 2y) / max(width, height); otherwise it returns a ray from
\* the eye whose direction is not the zero vector.
C18_FisheyeNoRayOutsideUnitDisc ==
    (probe.fn = "generate_primary_ray" /\ IsSome(probe.result)
     /\ probe.context.projection = "FISHEYE") =>
        LET px == probe.through_pixel
            width == probe.context.width
            height == probe.context.height
            larger == IF width > height THEN width ELSE height
            s_x == FDiv(2 * px[1] - width * SCALE, larger * SCALE)
            s_y == FDiv(height * SCALE - 2 * px[2], larger * SCALE)
            ray == Unwrap(probe.result)
            outside == FMul(s_x, s_x) + FMul(s_y, s_y) > SCALE
        IN /\ (ray = Ray(<<0, 0, 0>>, <<0, 0, 0>>)) <=> outside
           /\ ~outside => /\ ray.origin = probe.context.eye
                          /\ \E i \in 1..3 : ray.direction[i] # 0

\* The fisheye projection has returned a ray for a pixel on the rim of the
\* unit disc, s_x^2 + s_y^2 = 1, in an image taller than wide and with the
\* eye away from the origin.
C18_Witness ==
    /\ probe.fn = "generate_primary_ray" /\ IsSome(probe.result)
    /\ probe.context.projection = "FISHEYE"
    /\ probe.context.height > probe.context.width
    /\ probe.context.eye # ZeroVec3
    /\ LET s_x == ScreenX(probe.through_pixel, probe.context)
           s_y == ScreenYScaled(probe.through_pixel, probe.context)
       IN FMul(s_x, s_x) + FMul(s_y, s_y) = SCALE
    /\ Unwrap(probe.result).origin = probe.context.eye
    /\ ~HasNaN(Unwrap(probe.result).direction)

\* ------------------------------------------------------------------------
\* C19: Sphere::intersect
\* ------------------------------------------------------------------------

\* C19: at roughness 0 Sphere::intersect returns the first point at which
\* the ray, travelling forward, meets the sphere's surface: the hit is at a
\* distance t >= 0 along the ray, at origin + t * direction, on the surface
\* with the unit vector from the centre to it as normal (both to the 0.005
\* the code rounds to), at the near root (t <= tc) from outside and at the far
\* root (t >= tc) from inside; None when the origin is outside and the
\* centre behind the ray; and for an origin outside, aimed through the
\* centre, a hit at distance |origin - centre| - radius (to 0.005 as well).
C19_SphereFirstForwardPoint ==
    (probe.fn = "intersect" /\ IsSome(probe.result) /\ probe.shape.kind = "sphere") =>
        LET centre == probe.shape.center
            radius == probe.shape.radius
            ray == probe.ray
            found == Unwrap(probe.result)
            hit == Unwrap(found)
            to_centre == Magnitude(VSub(centre, ray.origin))
            inside == to_centre < radius
            tc == Dot(VSub(centre, ray.origin), ray.direction)
            foot == VAdd(ray.origin, VScale(ray.direction, tc))
        IN /\ (~inside /\ tc < 0) => IsNone(found)
           /\ (~inside /\ tc >= 0 /\ foot = centre) =>
                  /\ IsSome(found)
                  /\ FLe(FAbs(hit.distance - (to_centre - radius)), PRECISION)
           /\ IsSome(found) =>
                  /\ FLe(0, hit.distance)
                  /\ hit.point = VAdd(ray.origin, VScale(ray.direction, hit.distance))
                  /\ FLe(FAbs(Magnitude(VSub(hit.point, centre)) - radius), PRECISION)
                  /\ \A i \in 1..3 :
                         FLe(FAbs(hit.normal[i] - Normalize(VSub(hit.point, centre))[i]),
                             PRECISION)
                  /\ IF inside THEN FLe(tc, hit.distance) ELSE FLe(hit.distance, tc)

\* ------------------------------------------------------------------------
\* C20: Triangle::intersect
\* ------------------------------------------------------------------------

\* C20: Triangle::intersect returns a hit exactly when the determinant a,
\* the barycentric coordinates u, v and the ray parameter t of the
\* Moller-Trumbore test satisfy |a| >= 0.0001, u >= 0, v >= 0, u + v <= 1
\* and t >= 0.0001; the hit's point is origin + t * direction and its
\* distance is t.
C20_TriangleHitIffBarycentric ==
    (probe.fn = "intersect" /\ IsSome(probe.result) /\ probe.shape.kind = "triangle") =>
        LET v0 == probe.shape.verticies[1]
            edge1 == VSub(probe.shape.verticies[2], v0)
            edge2 == VSub(probe.shape.verticies[3], v0)
            ray == probe.ray
            found == Unwrap(probe.result)
            h == Cross(ray.direction, edge2)
            a == Dot(edge1, h)
            s == VSub(ray.origin, v0)
            q == Cross(s, edge1)
            u == FMul(FDiv(SCALE, a), Dot(s, h))
            v == FMul(FDiv(SCALE, a), Dot(ray.direction, q))
            t == FMul(FDiv(SCALE, a), Dot(edge2, q))
            expected == /\ a # 0
                        /\ u >= 0 /\ v >= 0 /\ u + v <= SCALE
                        /\ t > 0
        IN /\ IsSome(found) <=> expected
           /\ IsSome(found) =>
                  /\ Unwrap(found).distance = t
                  /\ Unwrap(found).point = VAdd(ray.origin, VScale(ray.direction, t))

\* The triangle (0,0,0) (1,0,0) (0,1,0) met from (0.2, 0.2, 5) along
\* (0, 0, -1): the hit is at (0.2, 0.2, 0), distance 5.
C20_Witness ==
    /\ probe.fn = "intersect" /\ IsSome(probe.result)
    /\ probe.shape.kind = "triangle"
    /\ probe.shape.verticies = <<<<0, 0, 0>>, <<SCALE, 0, 0>>, <<0, SCALE, 0>>>>
    /\ probe.ray = Ray(<<200, 200, 5000>>, <<0, 0, -SCALE>>)
    /\ IsSome(Unwrap(probe.result))
    /\ Unwrap(Unwrap(probe.result)).point = <<200, 200, 0>>
    /\ Unwrap(Unwrap(probe.result)).distance = 5000

\* ------------------------------------------------------------------------
\* C21: the normal of a triangle hit
\* ------------------------------------------------------------------------

\* C21: the normal of every hit Triangle::intersect returns, at roughness
\* 0, opposes the ray: normal . direction <= 0, whichever face the ray
\* strikes and in whichever order the vertices were given.
C21_TriangleNormalOpposesRay ==
    (probe.fn = "intersect" /\ IsSome(probe.result) /\ probe.shape.kind = "triangle"
     /\ IsSome(Unwrap(probe.result))) =>
        LET normal == Unwrap(Unwrap(probe.result)).normal
        IN /\ ~HasNaN(normal)
           /\ Dot(normal, probe.ray.direction) <= 0

\* A ray has struck the face the triangle's own normal, edge1 x edge2,
\* points away from: the returned normal is the opposite one, and the ray
\* is oblique to it.
C21_Witness ==
    /\ probe.fn = "intersect" /\ IsSome(probe.result) /\ probe.shape.kind = "triangle"
    /\ IsSome(Unwrap(probe.result))
    /\ LET edge1 == VSub(probe.shape.verticies[2], probe.shape.verticies[1])
           edge2 == VSub(probe.shape.verticies[3], probe.shape.verticies[1])
           own == Normalize(Cross(edge1, edge2))
       IN /\ Dot(own, probe.ray.direction) > 0
          /\ Dot(own, probe.ray.direction) < SCALE
          /\ Unwrap(Unwrap(probe.result)).normal = VScale(own, -SCALE)

\* ------------------------------------------------------------------------
\* C22: the normal of a hit, for the three kinds of primitive
\* ------------------------------------------------------------------------

\* C22: the normal of every hit intersect returns, for a sphere, a plane or
\* a triangle, has length 1 (to the 0.005 the code rounds to) and is the
\* outward normal of the side the ray struck: normal . direction <= 0,
\* on whichever side of the surface the ray's origin lies.
C22_NormalIsUnitAndOpposesRay ==
    (probe.fn = "intersect" /\ IsSome(probe.result) /\ IsSome(Unwrap(probe.result))) =>
        LET normal == Unwrap(Unwrap(probe.result)).normal
        IN /\ FLe(FAbs(FSub(Magnitude(normal), SCALE)), PRECISION)
           /\ FLe(Dot(normal, probe.ray.direction), 0)

\* ------------------------------------------------------------------------
\* C23: the coefficients the compositing loop reads
\* ------------------------------------------------------------------------

\* C23: for every primitive of the scene the shininess and the transparency
\* the compositing loop reads, the accessor's value or (0, 0, 0) for None,
\* have exactly 3 entries; planes and triangles have None; and a sphere
\* added while loading has, for the loader's shininess list, None when the
\* list is empty, the one entry three times when it has one, the list
\* itself when it has three.
C23_ThreeCoefficients ==
    /\ [](\A i \in 1..Len(raytracer.scene.shapes) :
              /\ Len(UnwrapOrZero(Shininess(raytracer.scene.shapes[i]))) = 3
              /\ Len(UnwrapOrZero(Transparency(raytracer.scene.shapes[i]))) = 3
              /\ raytracer.scene.shapes[i].kind # "sphere" =>
                     /\ IsNone(Shininess(raytracer.scene.shapes[i]))
                     /\ IsNone(Transparency(raytracer.scene.shapes[i])))
    /\ [][(Len(raytracer'.scene.shapes) = Len(raytracer.scene.shapes) + 1
           /\ raytracer'.scene.shapes[Len(raytracer'.scene.shapes)].kind = "sphere") =>
              LET list == raytracer.input_state.shininess
                  shininess == Shininess(raytracer'.scene.shapes[
                                             Len(raytracer'.scene.shapes)])
              IN /\ Len(list) = 0 => IsNone(shininess)
                 /\ Len(list) = 1 => shininess = Some(<<list[1], list[1], list[1]>>)
                 /\ Len(list) = 3 => shininess = Some(list)]_vars

\* A lit hit has been composited on a sphere whose shininess came from a
\* list of one entry.
C23_Witness ==
    /\ ReturnedLitHit
    /\ Len(raytracer.input_state.shininess) = 1
    /\ LET shape == raytracer.scene.shapes[
                        Unwrap(Unwrap(Unwrap(ret).frame.primary_colision).shape_id) + 1]
       IN /\ shape.kind = "sphere"
          /\ Shininess(shape) = Some(<<raytracer.input_state.shininess[1],
                                       raytracer.input_state.shininess[1],
                                       raytracer.input_state.shininess[1]>>)

\* ------------------------------------------------------------------------
\* C24: the pixel loop of render
\* ------------------------------------------------------------------------

\* C24: render goes through the pixels (x, y), 0 <= x < width,
\* 0 <= y < height, one after the other, each once: every step that leaves
\* a pixel moves to the next one, y innermost, from (0, 0) to the end.  A
\* step that changes the image changes the pixel being handled only, leaves
\* it for the next, and stores the bytes of the sRGB encoding of the traced
\* value, the exposure applied before the encoding when one is set; the
\* alpha goes through both unchanged.  A pixel whose primary ray is
\* rejected is left without a store: once render is over it still has its
\* initial value (0, 0, 0, 0).
C24_EachPixelOnceInOrder ==
    /\ [][pc # "load" =>
            /\ <<x', y'>> # <<x, y>> =>
                   /\ x < raytracer.width /\ y < raytracer.height
                   /\ x' * raytracer.height + y' = x * raytracer.height + y + 1
            /\ raytracer'.image # raytracer.image =>
                   LET traced == IF raytracer.anti_aliasing = 0 THEN Unwrap(ret).value
                                 ELSE [i \in 1..4 |->
                                          FDiv(pixel_color'[i],
                                               raytracer.anti_aliasing * SCALE)]
                       exposed == IF IsSome(raytracer.camera.exposure)
                                  THEN ApplyExposure(traced,
                                                     Unwrap(raytracer.camera.exposure))
                                  ELSE traced
                   IN /\ <<x', y'>> # <<x, y>>
                      /\ \A p \in DOMAIN raytracer.image :
                             p # <<x, y>> => raytracer'.image[p] = raytracer.image[p]
                      /\ exposed[4] = traced[4] /\ SRGB(exposed)[4] = traced[4]
                      /\ raytracer'.image[<<x, y>>] =
                             [i \in 1..4 |-> AsU8(IF IsNaN(SRGB(exposed)[i]) THEN NaN
                                                  ELSE SRGB(exposed)[i] * 255)]]_vars
    /\ [](pc = "done" =>
            /\ x = raytracer.width /\ y = 0
            /\ \A p \in DOMAIN raytracer.image :
                   VecEq(GeneratePrimaryRay(<<p[1] * SCALE, p[2] * SCALE>>,
                                            raytracer.camera, <<0, 0>>).direction,
                         ZeroVec3)
                   => raytracer.image[p] = <<0, 0, 0, 0>>)

\* render is over with an exposure set, and a pixel holds a colour that is
\* neither black nor saturated, with alpha 255.
C24_Witness ==
    /\ pc = "done"
    /\ IsSome(raytracer.camera.exposure)
    /\ \E p \in DOMAIN raytracer.image :
           /\ raytracer.image[p][4] = 255
           /\ raytracer.image[p][1] > 0 /\ raytracer.image[p][1] < 255

\* ------------------------------------------------------------------------
\* C25: MatVec::dot and MatVec::cross
\* ------------------------------------------------------------------------

\* C25: for all vectors a and b of 3 components, cross(a, b) is the
\* opposite of cross(b, a), component by component, and dot(a, b) equals
\* dot(b, a).
C25_CrossAntiDotSymmetric ==
    /\ (probe.fn = "cross" /\ IsSome(probe.result)) =>
           \A i \in 1..3 :
               Unwrap(probe.result)[i] = -(Cross(probe.other, probe.self)[i])
    /\ (probe.fn = "dot" /\ IsSome(probe.result)) =>
           Unwrap(probe.result) = Dot(probe.other, probe.self)

\* cross has returned a vector with no zero component for two different
\* vectors.
C25_Witness ==
    /\ probe.fn = "cross" /\ IsSome(probe.result)
    /\ probe.self # probe.other
    /\ \A i \in 1..3 : Unwrap(probe.result)[i] # 0

\* ------------------------------------------------------------------------
\* C26: what a directive of the file adds to the scene
\* ------------------------------------------------------------------------

\* C26: on every step the primitives and lights already in the scene keep
\* their index and every field; a step adds at most one primitive or light,
\* at the end of its list, and what it adds has the colour of the loader
\* state before the step, a sphere also the loader state's shininess (as
\* Sphere::new stores it), roughness and texture.
C26_AddedAtEndWithLoaderState ==
    [][LET before == raytracer.scene
           after == raytracer'.scene
           context == raytracer.input_state
       IN /\ Len(after.shapes) \in {Len(before.shapes), Len(before.shapes) + 1}
          /\ Len(after.light_sources)
                 \in {Len(before.light_sources), Len(before.light_sources) + 1}
          /\ \A i \in 1..Len(before.shapes) : after.shapes[i] = before.shapes[i]
          /\ \A i \in 1..Len(before.light_sources) :
                 after.light_sources[i] = before.light_sources[i]
          /\ Len(after.shapes) > Len(before.shapes) =>
                 LET added == after.shapes[Len(after.shapes)]
                 IN /\ added.color = context.color
                    /\ added.kind = "sphere" =>
                           /\ added.shininess = Coefficients(context.shininess)
                           /\ added.roughness = context.roughness
                           /\ added.texture = context.texture
          /\ Len(after.light_sources) > Len(before.light_sources) =>
                 after.light_sources[Len(after.light_sources)].color = context.color
      ]_vars

\* The file is read to its end; the first primitive keeps a colour that
\* the loader state and the second primitive no longer have.
C26_Witness ==
    /\ pc = "done"
    /\ Len(raytracer.scene.shapes) >= 2
    /\ raytracer.scene.shapes[1].color # raytracer.input_state.color
    /\ raytracer.scene.shapes[2].color = raytracer.input_state.color

\* ------------------------------------------------------------------------
\* C27: gi_depth in a render started by render_from_file
\* ------------------------------------------------------------------------

\* C27: in a run of render_from_file the scene's gi_depth is 0 in every
\* state, every activation of _recursive_raytrace has gi_depth 0, and none
\* is in the global-illumination branch.
C27_GiDepthAlwaysZero ==
    /\ raytracer.scene.gi_depth = 0
    /\ \A i \in 1..Len(stack) :
           /\ stack[i].gi_depth = 0
           /\ stack[i].pc \notin {"gi", "gi_wait"}

\* A reflection call is active: two activations, the caller past the test
\* of gi_depth with a hit, both with gi_depth 0.
C27_Witness ==
    /\ Len(stack) = 2
    /\ IsSome(stack[1].primary_colision)
    /\ stack[1].gi_depth = 0 /\ stack[2].gi_depth = 0
    /\ IsSome(stack[2].primary_colision) /\ stack[2].pc = "shade"

\* ------------------------------------------------------------------------
\* C28: occlusion at any distance
\* ------------------------------------------------------------------------

C29_NoRefractionTraced ==
    /\ \A k \in 1..(Len(stack) - 1) :
           LET caller == stack[k]
               callee == stack[k + 1]
               colision == Unwrap(caller.primary_colision)
           IN \/ /\ caller.pc = "refl_wait"
                 /\ callee.optional_intersection = Some(colision)
                 /\ callee.ray.origin = colision.point
                 /\ FAbs(FAdd(Dot(callee.ray.direction, colision.normal),
                              Dot(caller.ray.direction, colision.normal))) <= PRECISION
                 /\ \A i \in 1..3 :
                        FAbs(FSub(FSub(callee.ray.direction[i], caller.ray.direction[i]),
                                  FMul(colision.normal[i],
                                       FMul(2 * SCALE,
                                            Dot(callee.ray.direction, colision.normal)))))
                            <= PRECISION
              \/ /\ caller.pc = "gi_wait"
                 /\ callee.optional_intersection = None
                 /\ callee.ray = GiRay(colision, caller.random_direction)
    /\ ReturnedLitHit =>
           LET frame == Unwrap(ret).frame
               colision == Unwrap(frame.primary_colision)
               shape == raytracer.scene.shapes[Unwrap(colision.shape_id) + 1]
               s == UnwrapOrZero(Shininess(shape))
               t == UnwrapOrZero(Transparency(shape))
               base == ColorAt(shape, colision.point)
               albedo == [i \in 1..3 |->
                             FAdd(FMul(s[i], frame.reflection_color[i]),
                                  FMul(FMul(FSub(SCALE, s[i]), FSub(SCALE, t[i])), base[i]))]
           IN Unwrap(ret).value = Lambert(albedo, frame.ilumination_sources)

\* A reflection call is active for a ray that met the surface at a slant,
\* and a lit hit on a shiny primitive has returned to it.
C29_Witness ==
    /\ Len(stack) = 1 /\ stack[1].pc = "refl_wait"
    /\ FAbs(Dot(stack[1].ray.direction, Unwrap(stack[1].primary_colision).normal)) < SCALE - 100
    /\ ReturnedLitHit
    /\ AnyPositive(UnwrapOrZero(Shininess(
           raytracer.scene.shapes[Unwrap(Unwrap(Unwrap(ret).frame.primary_colision).shape_id) + 1])))

\* ------------------------------------------------------------------------
\* C30: width and height
\* ------------------------------------------------------------------------

\* C30: in every state the RayTracer's width and the CameraState's width
\* are the 2nd token of the header, their heights the 3rd, and the image
\* buffer holds exactly the pixels (0..width-1) x (0..height-1); and every
\* step that stores a pixel stores it at (x, y) of render's loops, which is
\* a pixel of the buffer.
C30_StoresInsideImage ==
    /\ [](/\ raytracer.width = file.header[1]
          /\ raytracer.height = file.header[2]
          /\ raytracer.camera.width = file.header[1]
          /\ raytracer.camera.height = file.header[2]
          /\ DOMAIN raytracer.image
                 = (0..(file.header[1] - 1)) \X (0..(file.header[2] - 1)))
    /\ [][raytracer'.image # raytracer.image =>
              /\ x \in 0..(file.header[1] - 1)
              /\ y \in 0..(file.header[2] - 1)
              /\ <<x, y>> \in DOMAIN raytracer.image
              /\ DOMAIN raytracer'.image = DOMAIN raytracer.image
              /\ \A p \in DOMAIN raytracer.image :
                     p # <<x, y>> => raytracer'.image[p] = raytracer.image[p]
         ]_vars

\* The render of an image higher than wide is over, and its last pixel
\* (width - 1, height - 1) has been stored.
C30_Witness ==
    /\ pc = "done"
    /\ file.header[1] < file.header[2]
    /\ raytracer.image[<<file.header[1] - 1, file.header[2] - 1>>][4] = 255

=============================================================================
